---------------------------- MODULE Spec2Model ----------------------------
(***************************************************************************)
(* EasyMotionManager (src/src/easymotion.ts): the session state machine    *)
(* Idle -> AwaitingQuery -> Active, the label generator, the spatial       *)
(* deduplication of matches and the hint list.                             *)
(*                                                                         *)
(* The methods of the class are operators on a record of the object's      *)
(* fields and of the host state they touch (the document selection, the    *)
(* toast and flash elements); an action is one event handler run to        *)
(* completion.  Strings that the code indexes (labels, the input buffer,   *)
(* the text of the search bar) are sequences of one-character strings.     *)
(***************************************************************************)
EXTENDS Integers, Sequences, FiniteSets, TLC

VARIABLES
    active,            \* this.active
    waitingForInput,   \* this.waitingForInput
    hints,             \* this.hints
    inputBuffer,       \* this.inputBuffer
    savedRange,        \* this.savedRange
    lastAltPressTime,  \* this.lastAltPressTime
    targetKeywords,    \* this.targetKeywords
    searchBar,         \* this.searchBar is an element of the document
    container,         \* this.container is an element of the document
    styleElement,      \* this.styleElement is an element of the document
    listening,         \* the window keydown/mousedown listeners are attached
    scrollBound,       \* the window scroll/wheel listeners are attached
    selection,         \* the range of window.getSelection()
    toasts,            \* the toast elements in the document, oldest first
    flashes,           \* the flash containers in the document
    jumped,            \* the arguments of the jumpTo call of the last handler
    host,              \* how the host's selection API answers jumpTo
    call               \* the function specifications: a function of the
                       \* program, its arguments and what it returned

vars == <<active, waitingForInput, hints, inputBuffer, savedRange,
          lastAltPressTime, targetKeywords, searchBar, container,
          styleElement, listening, scrollBound, selection, toasts, flashes,
          jumped, host, call>>

(***************************************************************************)
(* Bounds of the model.                                                    *)
(***************************************************************************)
\* the session specification draws pages of 0..MaxCandidates matches, and of
\* as many matches as the alphabet has characters, and one more
MaxCandidates == 3
\* most matches it returns in the large-page specification
MaxLargeCandidates == 158
\* most toast elements, and most flash containers, alive at once
MaxToasts == 1
MaxFlashes == 1
\* most matches in a list of the deduplication specification
MaxDedupLen == 4
\* most text nodes of a document of the collector specification, and the
\* length of its runs of one letter
MaxNodes == 32
MaxRun == 10
\* longest query the matcher specification builds from its letters
MaxQueryLen == 2

(***************************************************************************)
(* Program constants.                                                      *)
(***************************************************************************)
\* an alphabet that begins with the home row
characters_HomeRow ==
    <<"a", "s", "d", "f", "q", "w", "e", "r", "z", "x", "c", "v">>

characters == <<"q", "w", "e", "r", "a", "s", "d", "f", "z", "x", "c", "v">>
AltWindow == 300

NoRange == [kind |-> "none"]
\* no function is under study in the session specifications
NoCall == [fn |-> "none"]
NoJump == [kind |-> "none"]
\* the value of chars[i] for i >= chars.length
Undefined == <<"undefined">>

(***************************************************************************)
(* Strings.                                                                *)
(***************************************************************************)
\* s[i], zero-based: a one-character string, or undefined past the end
CharAt(s, i) == IF i >= 0 /\ i < Len(s) THEN <<s[i + 1]>> ELSE Undefined

\* the string a value turns into under the + of strings
ToStr(v) ==
    IF v = Undefined THEN <<"u", "n", "d", "e", "f", "i", "n", "e", "d">> ELSE v

Concat(a, b) == ToStr(a) \o ToStr(b)

\* String.prototype.startsWith
StartsWith(s, prefix) ==
    /\ Len(prefix) <= Len(s)
    /\ SubSeq(s, 1, Len(prefix)) = prefix

\* a slice that keeps the last character
SliceLast_Keep(s) == s

\* s.slice(0, -1)
SliceLast(s) == SubSeq(s, 1, Len(s) - 1)

\* !label: undefined and the empty string are falsy
Falsy(label) == label = Undefined \/ label = <<>>

IsSpace(c) == c = " "

\* String.prototype.trim
RECURSIVE TrimStart(_)
TrimStart(s) ==
    IF s # <<>> /\ IsSpace(Head(s)) THEN TrimStart(Tail(s)) ELSE s

RECURSIVE TrimEnd(_)
TrimEnd(s) ==
    IF s # <<>> /\ IsSpace(s[Len(s)]) THEN TrimEnd(SubSeq(s, 1, Len(s) - 1))
    ELSE s

Trim(s) == TrimEnd(TrimStart(s))

\* s.split(/\s+/): tokens holds the finished pieces, cur the piece being read
RECURSIVE SplitFrom(_, _, _, _)
SplitFrom(s, i, cur, tokens) ==
    IF i > Len(s) THEN Append(tokens, cur)
    ELSE IF IsSpace(s[i])
         THEN IF i > 1 /\ IsSpace(s[i - 1])
              THEN SplitFrom(s, i + 1, cur, tokens)
              ELSE SplitFrom(s, i + 1, <<>>, Append(tokens, cur))
         ELSE SplitFrom(s, i + 1, Append(cur, s[i]), tokens)

SplitWs(s) == SplitFrom(s, 1, <<>>, <<>>)

\* toLowerCase() on the key names and on the characters of the model
ToLowerCase(key) ==
    CASE key = "Q" -> "q"
      [] key = "S" -> "s"
      [] key = "T" -> "t"
      [] key = "H" -> "h"
      [] key = "E" -> "e"
      [] key = "N" -> "n"
      [] key = "Escape" -> "escape"
      [] key = "Backspace" -> "backspace"
      [] key = "Enter" -> "enter"
      [] key = "Alt" -> "alt"
      [] OTHER -> key

\* s.includes(sub)
Includes(s, sub) ==
    \E i \in 0..(Len(s) - Len(sub)) : SubSeq(s, i + 1, i + Len(sub)) = sub

\* s.indexOf(sub, from): the least offset from which sub reads, at or after
\* from, or -1; the empty string reads at every offset up to s.length, and a
\* from value past the end is brought back to s.length for it
IndexOf(s, sub, from) ==
    LET at == {i \in from..(Len(s) - Len(sub)) :
                  SubSeq(s, i + 1, i + Len(sub)) = sub}
    IN IF sub = <<>> /\ from > Len(s) THEN Len(s)
       ELSE IF at = {} THEN -1
       ELSE CHOOSE i \in at : \A j \in at : i <= j

\* text.toLowerCase(), character by character
LowerText(s) == [i \in 1..Len(s) |-> ToLowerCase(s[i])]

\* arr.join(sep)
RECURSIVE Join(_, _)
Join(arr, sep) ==
    IF arr = <<>> THEN <<>>
    ELSE IF Len(arr) = 1 THEN arr[1]
    ELSE arr[1] \o sep \o Join(Tail(arr), sep)

\* a minimum that is its first argument
Min_First(a, b) == a

\* Math.min
Min(a, b) == IF a < b THEN a ELSE b

\* the members of a set of numbers in ascending order
SortAscending(S) ==
    [k \in 1..Cardinality(S) |->
        CHOOSE x \in S : Cardinality({y \in S : y < x}) = k - 1]

\* the members of a list, as a set
Members(seq) == {seq[i] : i \in 1..Len(seq)}

\* this.characters.includes(key): the key names of more than one character
\* are no substring of the alphabet
CharactersInclude(key) == \E i \in 1..Len(characters) : characters[i] = key


(***************************************************************************)
(* The page: what findVisibleMatches returns.  The walk over the text      *)
(* nodes and the matching are the environment of the session here: the     *)
(* list of matches is drawn from a family of pages.  Site k (zero-based,   *)
(* in document order) is a two-character occurrence; four sites share a    *)
(* text node.  The window is not scrolled (scrollX = scrollY = 0).         *)
(***************************************************************************)
Layouts == {"columns", "pairs"}

\* the first client rectangle of site k
SiteRect(k, layout) ==
    CASE layout = "columns" ->
           \* columns of four lines, read top to bottom
           [top |-> 20 * (k % 4), left |-> 16 * (k \div 4), width |-> 14]
      [] layout = "pairs" ->
           \* sites 2j and 2j+1 render 3 pixels apart
           [top |-> 20 * (k \div 8), left |-> 24 * ((k % 8) \div 2) + 3 * (k % 2),
            width |-> 14]

\* the Match pushed for site k
SiteMatch(k, layout) ==
    [node |-> 1 + (k \div 4), index |-> 3 * (k % 4), length |-> 2,
     rect |-> SiteRect(k, layout),
     pinyinMatch |-> [matched |-> TRUE, type |-> "direct"]]

PageMatches(n, layout) == [i \in 1..n |-> SiteMatch(i - 1, layout)]

\* where a text node sits: in plain text, inside an inline element
\* (.orca-inline-r-content / .orca-inline-l-text) or inside an insert button
NodeKind(node) ==
    CASE node = 2 -> "special"
      [] node = 3 -> "insert"
      [] OTHER -> "text"

Abs(x) == IF x < 0 THEN -x ELSE x

(***************************************************************************)
(* removeDuplicateMatches                                                  *)
(***************************************************************************)
\* a test that merges on either coordinate alone
IsDuplicate_Either(current, existing) ==
    LET dx == Abs(current.rect.left - existing.rect.left)
        dy == Abs(current.rect.top - existing.rect.top)
    IN dx < 5 \/ dy < 5

IsDuplicate(current, existing) ==
    LET dx == Abs(current.rect.left - existing.rect.left)
        dy == Abs(current.rect.top - existing.rect.top)
    IN dx < 5 /\ dy < 5

\* the forEach loop over matches[lo..hi], run on the two halves of the range
\* in turn
RECURSIVE DedupRange(_, _, _, _)
DedupRange(matches, lo, hi, uniqueMatches) ==
    IF lo > hi THEN uniqueMatches
    ELSE IF lo = hi
    THEN LET current == matches[lo]
             isDuplicate == \E j \in 1..Len(uniqueMatches) :
                                IsDuplicate(current, uniqueMatches[j])
         IN IF isDuplicate THEN uniqueMatches
            ELSE Append(uniqueMatches, current)
    ELSE LET mid == (lo + hi) \div 2
             left == DedupRange(matches, lo, mid, uniqueMatches)
         IN IF Len(left) >= 0 THEN DedupRange(matches, mid + 1, hi, left)
            ELSE left

\* a deduplication in which the last seen of two duplicates takes the place
\* of the first
RECURSIVE DedupLastWins(_, _, _)
DedupLastWins(matches, i, uniqueMatches) ==
    IF i > Len(matches) THEN uniqueMatches
    ELSE LET current == matches[i]
             dups == {j \in 1..Len(uniqueMatches) :
                         IsDuplicate(current, uniqueMatches[j])}
         IN IF dups = {}
            THEN DedupLastWins(matches, i + 1, Append(uniqueMatches, current))
            ELSE LET first == CHOOSE j \in dups : \A k \in dups : j <= k
                 IN DedupLastWins(matches, i + 1,
                                  [uniqueMatches EXCEPT ![first] = current])

removeDuplicateMatches_LastWins(matches) == DedupLastWins(matches, 1, <<>>)

removeDuplicateMatches(matches) == DedupRange(matches, 1, Len(matches), <<>>)

(***************************************************************************)
(* generateLabels                                                          *)
(***************************************************************************)
\* the scheme that keeps the one-character labels on a long list and
\* counts the two-character ones from the end of the alphabet
LabelAt_OneThenTwo(i, count) ==
    LET chars == characters
    IN IF i < Len(chars)
       THEN ToStr(CharAt(chars, i))
       ELSE LET first == (i - Len(chars)) \div Len(chars)
                second == (i - Len(chars)) % Len(chars)
            IN Concat(CharAt(chars, first), CharAt(chars, second))

\* a generator that gives the first match of a long list one character
LabelAt_FirstShort(i, count) ==
    LET chars == characters
    IN IF count <= Len(chars) \/ i = 0
       THEN ToStr(CharAt(chars, i))
       ELSE LET first == i \div Len(chars)
                second == i % Len(chars)
            IN Concat(CharAt(chars, first), CharAt(chars, second))

\* a generator whose first character wraps around with the second
LabelAt_Wrap(i, count) ==
    LET chars == characters
    IN IF count <= Len(chars)
       THEN ToStr(CharAt(chars, i))
       ELSE LET first == i % Len(chars)
                second == i % Len(chars)
            IN Concat(CharAt(chars, first), CharAt(chars, second))

LabelAt(i, count) ==
    LET chars == characters
    IN IF count <= Len(chars)
       THEN ToStr(CharAt(chars, i))
       ELSE LET first == i \div Len(chars)
                second == i % Len(chars)
            IN Concat(CharAt(chars, first), CharAt(chars, second))

generateLabels(count) == [k \in 1..count |-> LabelAt(k - 1, count)]

(***************************************************************************)
(* renderHints and fixOverlaps                                             *)
(***************************************************************************)
\* the Hint pushed for matches[i]; the marker is drawn at full opacity
NewHint(match, label) ==
    [label |-> label, node |-> match.node, index |-> match.index,
     length |-> match.length,
     top |-> match.rect.top,
     left |-> match.rect.left + (match.rect.width \div 2),
     dimmed |-> FALSE, lifted |-> FALSE]

\* labels[i], undefined past the end of the array
LabelOf(labels, i) == IF i <= Len(labels) THEN labels[i] ELSE Undefined

\* the forEach loop of renderHints: a match whose label is falsy is skipped
Labelled(matches, labels) ==
    LET pairs == [i \in 1..Len(matches) |->
                     [match |-> matches[i], label |-> LabelOf(labels, i)]]
        HasLabel(p) == ~Falsy(p.label)
        kept == SelectSeq(pairs, HasLabel)
    IN [i \in 1..Len(kept) |-> NewHint(kept[i].match, kept[i].label)]

\* the comparator of the sort: negative when a goes before b
CompareHints(a, b) ==
    IF Abs(a.top - b.top) > 5 THEN a.top - b.top ELSE a.left - b.left

\* Array.prototype.sort is stable; on the pages above the comparator is a
\* total preorder (lines are 20 apart), so the sorted array is the one a
\* stable insertion sort builds
InsertHint(sorted, h) ==
    LET before == {i \in 1..Len(sorted) : CompareHints(sorted[i], h) <= 0}
        pos == Cardinality(before)
    IN SubSeq(sorted, 1, pos) \o <<h>> \o SubSeq(sorted, pos + 1, Len(sorted))

RECURSIVE SortRange(_, _, _, _)
SortRange(hs, lo, hi, sorted) ==
    IF lo > hi THEN sorted
    ELSE IF lo = hi THEN InsertHint(sorted, hs[lo])
    ELSE LET mid == (lo + hi) \div 2
             left == SortRange(hs, lo, mid, sorted)
         IN IF Len(left) >= 0 THEN SortRange(hs, mid + 1, hi, left)
            ELSE left

SortHints(hs) == SortRange(hs, 1, Len(hs), <<>>)

\* the marker of hs[i] is moved when an earlier hint is on its line and
\* less than 20 to its side
Overlaps(current, prev) ==
    LET dist == Abs(current.left - prev.left)
        sameLine == Abs(current.top - prev.top) < 15
    IN sameLine /\ dist < 20

fixOverlaps(hs) ==
    LET sorted == SortHints(hs)
    IN [i \in 1..Len(sorted) |->
          [sorted[i] EXCEPT !.lifted =
              \E j \in 1..(i - 1) : Overlaps(sorted[i], sorted[j])]]

\* the value of this.hints after renderHints(matches, labels)
renderHints(matches, labels) ==
    fixOverlaps(Labelled(matches, labels))

\* updateVisuals: a marker is dimmed unless its label starts with the buffer
updateVisuals(hs, buffer) ==
    [i \in 1..Len(hs) |->
        [hs[i] EXCEPT !.dimmed = ~StartsWith(hs[i].label, buffer)]]


(***************************************************************************)
(* The object and the host state its methods read and write.               *)
(***************************************************************************)
Cur ==
    [active |-> active, waitingForInput |-> waitingForInput, hints |-> hints,
     inputBuffer |-> inputBuffer, savedRange |-> savedRange,
     lastAltPressTime |-> lastAltPressTime,
     targetKeywords |-> targetKeywords, searchBar |-> searchBar,
     container |-> container, styleElement |-> styleElement,
     listening |-> listening, scrollBound |-> scrollBound,
     selection |-> selection, toasts |-> toasts, flashes |-> flashes,
     jumped |-> jumped, host |-> host, thrown |-> FALSE]

Becomes(s) ==
    /\ active' = s.active
    /\ waitingForInput' = s.waitingForInput
    /\ hints' = s.hints
    /\ inputBuffer' = s.inputBuffer
    /\ savedRange' = s.savedRange
    /\ lastAltPressTime' = s.lastAltPressTime
    /\ targetKeywords' = s.targetKeywords
    /\ searchBar' = s.searchBar
    /\ container' = s.container
    /\ styleElement' = s.styleElement
    /\ listening' = s.listening
    /\ scrollBound' = s.scrollBound
    /\ selection' = s.selection
    /\ toasts' = s.toasts
    /\ flashes' = s.flashes
    /\ jumped' = s.jumped
    /\ host' = s.host
    /\ call' = call

\* the object after its constructor, in a document with selection sel
Constructed(sel) ==
    [active |-> FALSE, waitingForInput |-> FALSE, hints |-> <<>>,
     inputBuffer |-> <<>>, savedRange |-> NoRange, lastAltPressTime |-> 0,
     targetKeywords |-> <<>>, searchBar |-> FALSE, container |-> FALSE,
     styleElement |-> FALSE, listening |-> FALSE, scrollBound |-> FALSE,
     selection |-> sel, toasts |-> <<>>, flashes |-> 0, jumped |-> NoJump,
     host |-> "ok", thrown |-> FALSE]

\* a caret the user has put in the document before the session
UserRange == [kind |-> "caret", node |-> 0, offset |-> 0]

\* where input.focus() leaves the selection of the window: at the bar
BarFocus == [kind |-> "bar", node |-> 0, offset |-> 0]

(***************************************************************************)
(* closeSearchBar, deactivate, jumpTo, showToast, flashMatch               *)
(***************************************************************************)
closeSearchBar(s) == [s EXCEPT !.waitingForInput = FALSE, !.searchBar = FALSE]

\* the selection jumpTo(node, index, length) sets
JumpRange(node, index, length) ==
    CASE NodeKind(node) = "insert" ->
           \* range.selectNodeContents(insertBtn)
           [kind |-> "contents", node |-> node, offset |-> 0]
      [] NodeKind(node) = "special" ->
           \* collapsed right after the inline element
           [kind |-> "after", node |-> node, offset |-> 0]
      [] OTHER ->
           [kind |-> "caret", node |-> node, offset |-> index + length]

\* a jumpTo that sets the selection and keeps the saved range
jumpTo_KeepsSnapshot(s, node, index, length) ==
    LET called == [s EXCEPT !.jumped = [kind |-> "jump", node |-> node,
                                        index |-> index, length |-> length]]
    IN IF s.host = "nosel" THEN called
       ELSE IF s.host = "throws" THEN [called EXCEPT !.thrown = TRUE]
       ELSE [called EXCEPT !.selection = JumpRange(node, index, length)]

\* with no selection object jumpTo returns after clearing the saved range;
\* a setStart/setEnd/addRange that raises ends the handler there (thrown)
jumpTo(s, node, index, length) ==
    LET called == [s EXCEPT !.savedRange = NoRange,
                            !.jumped = [kind |-> "jump", node |-> node,
                                        index |-> index, length |-> length]]
    IN IF s.host = "nosel" THEN called
       ELSE IF s.host = "throws" THEN [called EXCEPT !.thrown = TRUE]
       ELSE [called EXCEPT !.selection = JumpRange(node, index, length)]

\* a deactivate that drops the saved range without applying it
deactivate_NoRestore(s) ==
    [closeSearchBar([s EXCEPT !.active = FALSE, !.waitingForInput = FALSE])
       EXCEPT !.container = FALSE, !.hints = <<>>, !.scrollBound = FALSE,
              !.savedRange = NoRange]

\* a deactivate that applies the saved range and keeps it
deactivate_KeepSnapshot(s) ==
    LET off == [closeSearchBar([s EXCEPT !.active = FALSE,
                                         !.waitingForInput = FALSE])
                  EXCEPT !.container = FALSE, !.hints = <<>>,
                         !.scrollBound = FALSE]
    IN IF off.savedRange # NoRange
       THEN [off EXCEPT !.selection = off.savedRange]
       ELSE off

\* a deactivate that leaves the hint list as it is
deactivate_KeepsHints(s) ==
    LET off == [closeSearchBar([s EXCEPT !.active = FALSE,
                                         !.waitingForInput = FALSE])
                  EXCEPT !.container = FALSE, !.scrollBound = FALSE]
    IN IF off.savedRange # NoRange
       THEN IF off.host = "nosel" THEN [off EXCEPT !.savedRange = NoRange]
            ELSE [off EXCEPT !.selection = off.savedRange,
                             !.savedRange = NoRange]
       ELSE off

deactivate(s) ==
    LET off == [closeSearchBar([s EXCEPT !.active = FALSE,
                                         !.waitingForInput = FALSE])
                  EXCEPT !.container = FALSE, !.hints = <<>>,
                         !.scrollBound = FALSE]
    IN IF off.savedRange # NoRange
       THEN IF off.host = "nosel" THEN [off EXCEPT !.savedRange = NoRange]
            ELSE [off EXCEPT !.selection = off.savedRange,
                             !.savedRange = NoRange]
       ELSE off

showToast(s, message) ==
    [s EXCEPT !.toasts = Append(@, [message |-> message, opacity |-> 1])]

\* target is a Match (of the single-match path) or a Hint (of checkHints);
\* only a Match has the pinyinMatch field
flashMatch(s, target) ==
    LET flashed == [s EXCEPT !.flashes = @ + 1]
    IN IF "pinyinMatch" \in DOMAIN target /\ target.pinyinMatch.matched
       THEN showToast(flashed,
                      [kind |-> "pinyin", type |-> target.pinyinMatch.type])
       ELSE flashed

(***************************************************************************)
(* activate: found is what findVisibleMatches(this.targetKeywords) returns *)
(***************************************************************************)
\* the three calls jumpTo, flashMatch, deactivate of activate and of
\* checkHints: an exception out of jumpTo skips the other two
JumpFlashDeactivate(s, match) ==
    LET j == jumpTo(s, match.node, match.index, match.length)
    IN IF j.thrown THEN j ELSE deactivate(flashMatch(j, match))

\* an activate that labels a single match like any other list
activate_LabelsOne(s, found) ==
    LET on == [s EXCEPT !.active = TRUE, !.inputBuffer = <<>>]
        matches == removeDuplicateMatches(found)
    IN IF Len(matches) = 0
       THEN deactivate(showToast(on, [kind |-> "notfound",
                                      keywords |-> on.targetKeywords]))
       ELSE LET labels == generateLabels(Len(matches))
            IN [on EXCEPT !.container = TRUE,
                          !.hints = renderHints(matches, labels),
                          !.scrollBound = TRUE]

\* an activate that shows the toast of an empty page and stays active
activate_NoDismiss(s, found) ==
    LET on == [s EXCEPT !.active = TRUE, !.inputBuffer = <<>>]
        matches == removeDuplicateMatches(found)
    IN IF Len(matches) = 0
       THEN showToast(on, [kind |-> "notfound", keywords |-> on.targetKeywords])
       ELSE IF Len(matches) = 1
       THEN LET match == matches[1]
            IN deactivate(flashMatch(
                   jumpTo(on, match.node, match.index, match.length), match))
       ELSE LET labels == generateLabels(Len(matches))
            IN [on EXCEPT !.container = TRUE,
                          !.hints = renderHints(matches, labels),
                          !.scrollBound = TRUE]

activate(s, found) ==
    LET on == [s EXCEPT !.active = TRUE, !.inputBuffer = <<>>]
        matches == removeDuplicateMatches(found)
    IN IF Len(matches) = 0
       THEN deactivate(showToast(on, [kind |-> "notfound",
                                      keywords |-> on.targetKeywords]))
       ELSE IF Len(matches) = 1
       THEN JumpFlashDeactivate(on, matches[1])
       ELSE LET labels == generateLabels(Len(matches))
            IN [on EXCEPT !.container = TRUE,
                          !.hints = renderHints(matches, labels),
                          !.scrollBound = TRUE]

(***************************************************************************)
(* checkHints                                                              *)
(***************************************************************************)
\* this.hints.find(h => h.label === nextBuffer): its index, 0 when none
FindHint(hs, nextBuffer) ==
    IF \E i \in 1..Len(hs) : hs[i].label = nextBuffer
    THEN CHOOSE i \in 1..Len(hs) :
            /\ hs[i].label = nextBuffer
            /\ \A j \in 1..(i - 1) : hs[j].label # nextBuffer
    ELSE 0

\* a filter that keeps every hint
Possible_All(hs, nextBuffer) == 1..Len(hs)

\* a filter that keeps the labels equal to the buffer only
Possible_Exact(hs, nextBuffer) ==
    {i \in 1..Len(hs) : hs[i].label = nextBuffer}

\* this.hints.filter(h => h.label.startsWith(nextBuffer)), as indices
Possible(hs, nextBuffer) ==
    {i \in 1..Len(hs) : StartsWith(hs[i].label, nextBuffer)}

\* a checkHints that jumps and leaves the session as it is
checkHints_NoDeactivate(s, newKey) ==
    LET nextBuffer == s.inputBuffer \o <<newKey>>
        found == FindHint(s.hints, nextBuffer)
        possible == Possible(s.hints, nextBuffer)
    IN IF found # 0
       THEN LET match == s.hints[found]
            IN flashMatch(jumpTo(s, match.node, match.index, match.length),
                          match)
       ELSE IF possible # {}
       THEN [s EXCEPT !.inputBuffer = nextBuffer,
                      !.hints = updateVisuals(s.hints, nextBuffer)]
       ELSE s

\* a checkHints that keeps the key whether or not a label starts with it
checkHints_Append(s, newKey) ==
    LET nextBuffer == s.inputBuffer \o <<newKey>>
        found == FindHint(s.hints, nextBuffer)
    IN IF found # 0
       THEN LET match == s.hints[found]
            IN deactivate(flashMatch(
                   jumpTo(s, match.node, match.index, match.length), match))
       ELSE [s EXCEPT !.inputBuffer = nextBuffer,
                      !.hints = updateVisuals(s.hints, nextBuffer)]

checkHints(s, newKey) ==
    LET nextBuffer == s.inputBuffer \o <<newKey>>
        found == FindHint(s.hints, nextBuffer)
        possible == Possible(s.hints, nextBuffer)
    IN IF found # 0
       THEN JumpFlashDeactivate(s, s.hints[found])
       ELSE IF possible # {}
       THEN [s EXCEPT !.inputBuffer = nextBuffer,
                      !.hints = updateVisuals(s.hints, nextBuffer)]
       ELSE s

(***************************************************************************)
(* openSearchBar                                                           *)
(***************************************************************************)
\* the text the bar is filled with is the user's to edit; what the Enter
\* handler reads is an input of that handler
openSearchBar(s) ==
    IF s.host = "nosel"
    THEN [s EXCEPT !.savedRange = NoRange,
                   !.waitingForInput = TRUE,
                   !.searchBar = TRUE]
    ELSE [s EXCEPT !.savedRange = s.selection,
                   !.waitingForInput = TRUE,
                   !.searchBar = TRUE,
                   !.selection = BarFocus]

(***************************************************************************)
(* handleKeyDown: e has the key, the repeat flag and the reading of        *)
(* Date.now()                                                              *)
(***************************************************************************)
\* a handler whose double-press window includes its end
handleKeyDown_Inclusive(s, e) ==
    IF e.repeat THEN s
    ELSE IF e.key = "Alt"
    THEN IF e.now - s.lastAltPressTime <= AltWindow
         THEN [(IF s.active \/ s.waitingForInput
                THEN deactivate(s) ELSE openSearchBar(s))
               EXCEPT !.lastAltPressTime = 0]
         ELSE [s EXCEPT !.lastAltPressTime = e.now]
    ELSE IF ~s.active /\ ~s.waitingForInput THEN s
    ELSE IF s.waitingForInput
    THEN IF e.key = "Escape" THEN deactivate(s) ELSE s
    ELSE LET key == ToLowerCase(e.key)
         IN IF key = "escape" THEN deactivate(s)
            ELSE IF key = "backspace"
            THEN IF Len(s.inputBuffer) > 0
                 THEN LET buf == SliceLast(s.inputBuffer)
                      IN [s EXCEPT !.inputBuffer = buf,
                                   !.hints = updateVisuals(s.hints, buf)]
                 ELSE s
            ELSE IF CharactersInclude(key) THEN checkHints(s, key)
            ELSE s

\* a handler whose double press opens the bar whatever the session is in
handleKeyDown_Reopen(s, e) ==
    IF e.repeat THEN s
    ELSE IF e.key = "Alt"
    THEN IF e.now - s.lastAltPressTime < AltWindow
         THEN [openSearchBar(s) EXCEPT !.lastAltPressTime = 0]
         ELSE [s EXCEPT !.lastAltPressTime = e.now]
    ELSE IF ~s.active /\ ~s.waitingForInput THEN s
    ELSE IF s.waitingForInput
    THEN IF e.key = "Escape" THEN deactivate(s) ELSE s
    ELSE LET key == ToLowerCase(e.key)
         IN IF key = "escape" THEN deactivate(s)
            ELSE IF key = "backspace"
            THEN IF Len(s.inputBuffer) > 0
                 THEN LET buf == SliceLast(s.inputBuffer)
                      IN [s EXCEPT !.inputBuffer = buf,
                                   !.hints = updateVisuals(s.hints, buf)]
                 ELSE s
            ELSE IF CharactersInclude(key) THEN checkHints(s, key)
            ELSE s

handleKeyDown(s, e) ==
    IF e.repeat THEN s
    ELSE IF e.key = "Alt"
    THEN IF e.now - s.lastAltPressTime < AltWindow
         THEN [(IF s.active \/ s.waitingForInput
                THEN deactivate(s) ELSE openSearchBar(s))
               EXCEPT !.lastAltPressTime = 0]
         ELSE [s EXCEPT !.lastAltPressTime = e.now]
    ELSE IF ~s.active /\ ~s.waitingForInput THEN s
    ELSE IF s.waitingForInput
    THEN IF e.key = "Escape" THEN deactivate(s) ELSE s
    ELSE \* this.active
         LET key == ToLowerCase(e.key)
         IN IF key = "escape" THEN deactivate(s)
            ELSE IF key = "backspace"
            THEN IF Len(s.inputBuffer) > 0
                 THEN LET buf == SliceLast(s.inputBuffer)
                      IN [s EXCEPT !.inputBuffer = buf,
                                   !.hints = updateVisuals(s.hints, buf)]
                 ELSE s
            ELSE IF CharactersInclude(key) THEN checkHints(s, key)
            ELSE s

\* the handler stops the event before it reaches the bar's own listener
StopsPropagation(s, e) ==
    /\ ~e.repeat
    /\ e.key # "Alt"
    /\ \/ s.waitingForInput /\ e.key = "Escape"
       \/ ~s.waitingForInput /\ s.active

(***************************************************************************)
(* The keydown listener of the bar's input (openSearchBar, lines 141-158): *)
(* value is input.value, found what findVisibleMatches returns             *)
(***************************************************************************)
inputKeyDown(s, e, value, found) ==
    IF e.key = "Control" \/ e.key = "Alt" THEN s
    ELSE IF e.key = "Enter"
    THEN LET val == Trim(value)
         IN IF val # <<>>
            THEN activate(closeSearchBar(
                     [s EXCEPT !.targetKeywords = SplitWs(val)]), found)
            ELSE deactivate(s)
    ELSE IF e.key = "Escape" THEN deactivate(s)
    ELSE s

\* a handleMouseDown that dismisses and keeps the saved range for deactivate
handleMouseDown_Restores(s, inBar) ==
    IF ~s.active /\ ~s.waitingForInput THEN s
    ELSE IF s.searchBar /\ inBar THEN s
    ELSE deactivate(s)

handleMouseDown(s, inBar) ==
    IF ~s.active /\ ~s.waitingForInput THEN s
    ELSE IF s.searchBar /\ inBar THEN s
    ELSE deactivate([s EXCEPT !.savedRange = NoRange])

\* a scroll listener that leaves the session alone
autoDismiss_Never(s) == s

autoDismiss(s) == IF s.active THEN deactivate(s) ELSE s

init(s) == [s EXCEPT !.listening = TRUE, !.styleElement = TRUE]

\* the toasts carry no js-easymotion-toast class: the query finds none
destroy(s) ==
    [deactivate(s) EXCEPT !.listening = FALSE, !.styleElement = FALSE]


(***************************************************************************)
(* Events.  A handler runs to completion; it starts with no jump made.     *)
(***************************************************************************)
Keys == {characters[i] : i \in 1..Len(characters)}
            \cup {"Q", "u", "Escape", "Backspace", "Enter"}

\* the keys that are also held down long enough to repeat
RepeatKeys == {"q", "Escape", "Backspace", "Enter"}

\* the readings of Date.now(): only their distance to the stored press is
\* read, and a reading is never before the stored press
Times == {AltWindow, 2 * AltWindow - 1}

\* the text of the bar's input when Enter is pressed
InputValues == {<<" ">>, <<" ", "t", "h", "e", " ">>}

KeyEvent(key, repeat, now) == [key |-> key, repeat |-> repeat, now |-> now]

Fresh == [Cur EXCEPT !.jumped = NoJump]

\* the elements the handler leaves in the document stay within the bounds
WithinBounds(s) == Len(s.toasts) <= MaxToasts /\ s.flashes <= MaxFlashes

\* the window listener (capture phase), then the listener of the bar's
\* input when the event's target is that input and it was not stopped
Dispatch(s, e, inBar, value, found) ==
    LET w == handleKeyDown(s, e)
    IN IF inBar /\ ~StopsPropagation(s, e)
       THEN inputKeyDown(w, e, value, found)
       ELSE w

\* a press of Alt, anywhere
AltKeyDown(now, repeat) ==
    /\ listening
    /\ now >= lastAltPressTime
    /\ \E next \in {Dispatch(Fresh, KeyEvent("Alt", repeat, now), searchBar,
                              <<>>, <<>>)} : Becomes(next)

\* a key other than Alt while the focus is in the document
KeyDown(key, repeat) ==
    /\ listening
    /\ \E next \in {Dispatch(Fresh, KeyEvent(key, repeat, 0), FALSE,
                              <<>>, <<>>)} :
           WithinBounds(next) /\ Becomes(next)

\* a key other than Alt and Enter while the focus is in the bar's input
BarKeyDown(key, repeat) ==
    /\ listening
    /\ searchBar
    /\ key # "Enter"
    /\ \E next \in {Dispatch(Fresh, KeyEvent(key, repeat, 0), TRUE,
                              <<>>, <<>>)} : Becomes(next)

\* Enter in the bar's input, on a page where the query has n occurrences
Submit(value, n, layout, repeat) ==
    /\ listening
    /\ searchBar
    /\ \E next \in {Dispatch(Fresh, KeyEvent("Enter", repeat, 0), TRUE,
                              value, PageMatches(n, layout))} :
           WithinBounds(next) /\ Becomes(next)

MouseDown(inBar) ==
    /\ listening
    /\ inBar => searchBar
    /\ \E next \in {handleMouseDown(Fresh, inBar)} : Becomes(next)

\* a scroll or wheel event: the listeners are attached while scrollBound
Scroll ==
    /\ scrollBound
    /\ \E next \in {autoDismiss(Fresh)} : Becomes(next)

\* unload(): destroy(), and the object is dropped
Destroy ==
    /\ listening
    /\ \E next \in {destroy(Fresh)} : Becomes(next)

\* the 1500 ms timer of showToast: the toast fades.  Timers of one delay
\* fire in the order they were set, so the toasts fade oldest first
ToastFade(i) ==
    /\ i \in 1..Len(toasts)
    /\ toasts[i].opacity = 1
    /\ \A j \in 1..(i - 1) : toasts[j].opacity = 0
    /\ toasts' = [toasts EXCEPT ![i].opacity = 0]
    /\ UNCHANGED <<active, waitingForInput, hints, inputBuffer, savedRange,
                   lastAltPressTime, targetKeywords, searchBar, container,
                   styleElement, listening, scrollBound, selection, flashes,
                   jumped, host, call>>

\* the 500 ms timer set by the first: the toast is removed, oldest first
ToastRemove ==
    /\ toasts # <<>>
    /\ toasts[1].opacity = 0
    /\ toasts' = Tail(toasts)
    /\ UNCHANGED <<active, waitingForInput, hints, inputBuffer, savedRange,
                   lastAltPressTime, targetKeywords, searchBar, container,
                   styleElement, listening, scrollBound, selection, flashes,
                   jumped, host, call>>

\* a timer of flashMatch that also ends the session
FlashRemove_Deactivates ==
    /\ flashes > 0
    /\ flashes' = flashes - 1
    /\ active' = FALSE
    /\ hints' = <<>>
    /\ container' = FALSE
    /\ scrollBound' = FALSE
    /\ UNCHANGED <<waitingForInput, inputBuffer, savedRange,
                   lastAltPressTime, targetKeywords, searchBar,
                   styleElement, listening, selection, toasts,
                   jumped, host, call>>

\* the 1500 ms timer of flashMatch: the flash container is removed
FlashRemove ==
    /\ flashes > 0
    /\ flashes' = flashes - 1
    /\ UNCHANGED <<active, waitingForInput, hints, inputBuffer, savedRange,
                   lastAltPressTime, targetKeywords, searchBar, container,
                   styleElement, listening, scrollBound, selection, toasts,
                   jumped, host, call>>

(***************************************************************************)
(* The session specification: load() has constructed the object and run    *)
(* init(); the document has no selection or the user's caret.              *)
(***************************************************************************)
Loaded == {init(Constructed(sel)) : sel \in {NoRange, UserRange}}

Init ==
    \E s \in Loaded :
        /\ active = s.active
        /\ waitingForInput = s.waitingForInput
        /\ hints = s.hints
        /\ inputBuffer = s.inputBuffer
        /\ savedRange = s.savedRange
        /\ lastAltPressTime = s.lastAltPressTime
        /\ targetKeywords = s.targetKeywords
        /\ searchBar = s.searchBar
        /\ container = s.container
        /\ styleElement = s.styleElement
        /\ listening = s.listening
        /\ scrollBound = s.scrollBound
        /\ selection = s.selection
        /\ toasts = s.toasts
        /\ flashes = s.flashes
        /\ jumped = s.jumped
        /\ host = s.host
        /\ call = NoCall

AltPress == \E now \in Times, repeat \in BOOLEAN : AltKeyDown(now, repeat)
KeyPress ==
    \E key \in Keys, repeat \in BOOLEAN :
        (repeat => key \in RepeatKeys) /\ KeyDown(key, repeat)
BarKeyPress ==
    \E key \in Keys, repeat \in BOOLEAN :
        (repeat => key \in RepeatKeys) /\ BarKeyDown(key, repeat)
\* the numbers of matches of the pages of the session specification
Candidates == (0..MaxCandidates) \cup {Len(characters), Len(characters) + 1}

\* Enter pressed once on every page; held down on the pages of no, one and
\* two matches
SubmitQuery ==
    \E value \in InputValues, n \in Candidates, layout \in Layouts,
       repeat \in BOOLEAN :
        (repeat => n <= 2) /\ Submit(value, n, layout, repeat)
PointerDown == \E inBar \in BOOLEAN : MouseDown(inBar)
ToastTimer == \E i \in 1..MaxToasts + 1 : ToastFade(i)

Next ==
    \/ AltPress
    \/ KeyPress
    \/ BarKeyPress
    \/ SubmitQuery
    \/ PointerDown
    \/ Scroll
    \/ Destroy
    \/ ToastTimer
    \/ ToastRemove
    \/ FlashRemove

Spec == Init /\ [][Next]_vars


(***************************************************************************)
(* The large-page specification: one session on a page of up to            *)
(* MaxLargeCandidates matches, from the open search bar (the state the     *)
(* double press of Alt leaves) to the end of the session.                  *)
(***************************************************************************)
BarOpened == {openSearchBar(s) : s \in Loaded}

InitLarge ==
    \E s \in BarOpened :
        /\ active = s.active
        /\ waitingForInput = s.waitingForInput
        /\ hints = s.hints
        /\ inputBuffer = s.inputBuffer
        /\ savedRange = s.savedRange
        /\ lastAltPressTime = s.lastAltPressTime
        /\ targetKeywords = s.targetKeywords
        /\ searchBar = s.searchBar
        /\ container = s.container
        /\ styleElement = s.styleElement
        /\ listening = s.listening
        /\ scrollBound = s.scrollBound
        /\ selection = s.selection
        /\ toasts = s.toasts
        /\ flashes = s.flashes
        /\ jumped = s.jumped
        /\ host = s.host
        /\ call = NoCall

SubmitLarge ==
    \E n \in 0..MaxLargeCandidates :
        Submit(<<"t", "h", "e">>, n, "columns", FALSE)

LabelKeyPress == \E key \in Keys : active /\ KeyDown(key, FALSE)

NextLarge ==
    \/ SubmitLarge
    \/ LabelKeyPress

SpecLarge == InitLarge /\ [][NextLarge]_vars

(***************************************************************************)
(* The failing-host specification: the session machine on a host where     *)
(* window.getSelection() returns null ("nosel"), or where setting the      *)
(* range of a jump raises ("throws").                                      *)
(***************************************************************************)
LoadedFailing ==
    {[init(Constructed(NoRange)) EXCEPT !.host = "nosel"]}
    \cup {[s EXCEPT !.host = "throws"] : s \in Loaded}

InitHost ==
    \E s \in LoadedFailing :
        /\ active = s.active
        /\ waitingForInput = s.waitingForInput
        /\ hints = s.hints
        /\ inputBuffer = s.inputBuffer
        /\ savedRange = s.savedRange
        /\ lastAltPressTime = s.lastAltPressTime
        /\ targetKeywords = s.targetKeywords
        /\ searchBar = s.searchBar
        /\ container = s.container
        /\ styleElement = s.styleElement
        /\ listening = s.listening
        /\ scrollBound = s.scrollBound
        /\ selection = s.selection
        /\ toasts = s.toasts
        /\ flashes = s.flashes
        /\ jumped = s.jumped
        /\ host = s.host
        /\ call = NoCall

SpecHost == InitHost /\ [][Next]_vars

(***************************************************************************)
(* The deduplication specification: removeDuplicateMatches applied to the  *)
(* lists of at most MaxDedupLen matches whose first rectangles are at the  *)
(* points below, and applied again to what it returned.  The object is as  *)
(* load() left it.                                                         *)
(***************************************************************************)
\* <<top, left>>: three points of one line 3 apart, one 4 below, one far
RectPoints == {<<0, 0>>, <<0, 3>>, <<0, 6>>, <<4, 3>>, <<20, 0>>}

\* the i-th match of a list, its first rectangle at point pt
MatchAt(i, pt) ==
    [node |-> i, index |-> 0, length |-> 2,
     rect |-> [top |-> pt[1], left |-> pt[2], width |-> 14],
     pinyinMatch |-> [matched |-> TRUE, type |-> "direct"]]

MatchLists ==
    UNION {{[i \in 1..k |-> MatchAt(i, pts[i])] : pts \in [1..k -> RectPoints]} :
              k \in 0..MaxDedupLen}

SessionAsLoaded ==
    \E s \in {init(Constructed(NoRange))} :
        /\ active = s.active
        /\ waitingForInput = s.waitingForInput
        /\ hints = s.hints
        /\ inputBuffer = s.inputBuffer
        /\ savedRange = s.savedRange
        /\ lastAltPressTime = s.lastAltPressTime
        /\ targetKeywords = s.targetKeywords
        /\ searchBar = s.searchBar
        /\ container = s.container
        /\ styleElement = s.styleElement
        /\ listening = s.listening
        /\ scrollBound = s.scrollBound
        /\ selection = s.selection
        /\ toasts = s.toasts
        /\ flashes = s.flashes
        /\ jumped = s.jumped
        /\ host = s.host

SessionUnchanged ==
    UNCHANGED <<active, waitingForInput, hints, inputBuffer, savedRange,
                lastAltPressTime, targetKeywords, searchBar, container,
                styleElement, listening, scrollBound, selection, toasts,
                flashes, jumped, host>>

InitDedup ==
    /\ SessionAsLoaded
    /\ \E matches \in MatchLists :
          call = [fn |-> "removeDuplicateMatches", args |-> matches,
                  done |-> FALSE, ret |-> <<>>]

\* matches = this.removeDuplicateMatches(matches)
DedupReturn ==
    /\ call.fn = "removeDuplicateMatches"
    /\ ~call.done
    /\ call' = [call EXCEPT !.done = TRUE,
                            !.ret = removeDuplicateMatches(call.args)]
    /\ SessionUnchanged

\* the list it returned is handed to it again
DedupAgain ==
    /\ call.fn = "removeDuplicateMatches"
    /\ call.done
    /\ call.ret # call.args
    /\ call' = [call EXCEPT !.args = call.ret, !.done = FALSE, !.ret = <<>>]
    /\ SessionUnchanged

NextDedup ==
    \/ DedupReturn
    \/ DedupAgain

SpecDedup == InitDedup /\ [][NextDedup]_vars


(***************************************************************************)
(* PinyinSearch.  The conversion of pinyin-pro is the environment: a Han   *)
(* character turns into its reading without tone marks, every other        *)
(* character into itself, one array element per character.  The Han        *)
(* characters are named by their code points.                              *)
(***************************************************************************)
\* null where a string is expected, and where a match result is expected
Null == <<"null">>
NullResult == [matched |-> FALSE, type |-> "null"]

\* the Han characters of the model and their readings
HanReading(c) ==
    CASE c = "U4F60" -> <<"n", "i">>
      [] c = "U597D" -> <<"h", "a", "o">>
      [] c = "U4E16" -> <<"s", "h", "i">>
      [] c = "U754C" -> <<"j", "i", "e">>

IsHan(c) == c \in {"U4F60", "U597D", "U4E16", "U754C"}

\* /[a-zA-Z0-9]/.test(char)
IsAlnum(c) ==
    c \in {"a", "b", "c", "d", "e", "f", "g", "h", "i", "j", "k", "l", "m",
           "n", "o", "p", "q", "r", "s", "t", "u", "v", "w", "x", "y", "z",
           "A", "B", "C", "D", "E", "F", "G", "H", "I", "J", "K", "L", "M",
           "N", "O", "P", "Q", "R", "S", "T", "U", "V", "W", "X", "Y", "Z",
           "0", "1", "2", "3", "4", "5", "6", "7", "8", "9"}

\* PinyinSearch.getPinyin: the array of readings
getPinyin(text) ==
    [i \in 1..Len(text) |-> IF IsHan(text[i]) THEN HanReading(text[i])
                            ELSE <<text[i]>>]

\* PinyinSearch.getPinyinInitials
getPinyinInitials(text) ==
    LET pinyinArray == getPinyin(text)
    IN [i \in 1..Len(pinyinArray) |-> ToLowerCase(pinyinArray[i][1])]

\* the while loop of findMatchIndices, index being an offset it found
RECURSIVE MatchIndicesFrom(_, _, _, _)
MatchIndicesFrom(textLower, queryLower, index, indices) ==
    IF index = -1 THEN indices
    ELSE MatchIndicesFrom(textLower, queryLower,
                          IndexOf(textLower, queryLower, index + 1),
                          Append(indices, index))

\* PinyinSearch.findMatchIndices
findMatchIndices(text, query) ==
    LET textLower == LowerText(text)
        queryLower == LowerText(query)
    IN MatchIndicesFrom(textLower, queryLower,
                        IndexOf(textLower, queryLower, 0), <<>>)

PinyinMatchResult(matched, type, py, text, indices) ==
    [matched |-> matched, type |-> type, pinyin |-> py, originalText |-> text,
     matchedIndices |-> indices]

\* the loop over queryParts of matchPinyin, from part i on
RECURSIVE MatchParts(_, _, _, _, _)
MatchParts(textStr, textPinyin, textInitials, queryParts, i) ==
    IF i > Len(queryParts)
    THEN PinyinMatchResult(FALSE, "none", Null, textStr, <<>>)
    ELSE LET part == queryParts[i]
         IN IF Includes(LowerText(textPinyin), part)
            THEN PinyinMatchResult(TRUE, "partial-pinyin", textPinyin, textStr,
                                   findMatchIndices(textPinyin, part))
            ELSE IF Includes(textInitials, part)
            THEN PinyinMatchResult(TRUE, "partial-initials", textInitials,
                                   textStr, findMatchIndices(textInitials, part))
            ELSE MatchParts(textStr, textPinyin, textInitials, queryParts, i + 1)

\* PinyinSearch.matchPinyin on a string
matchPinyin(searchText, searchQuery) ==
    IF searchText = <<>> \/ searchQuery = <<>> THEN NullResult
    ELSE LET textStr == searchText
             textPinyin == Join(getPinyin(textStr), <<" ">>)
             textPinyinNoSpace == Join(getPinyin(textStr), <<>>)
             textInitials == getPinyinInitials(textStr)
             queryLower == LowerText(searchQuery)
         IN IF Includes(textStr, searchQuery)
            THEN PinyinMatchResult(TRUE, "direct", Null, textStr,
                                   findMatchIndices(textStr, searchQuery))
            ELSE IF Includes(LowerText(textPinyin), queryLower)
            THEN PinyinMatchResult(TRUE, "pinyin", textPinyin, textStr,
                                   findMatchIndices(textPinyin, searchQuery))
            ELSE IF Includes(LowerText(textPinyinNoSpace), queryLower)
            THEN PinyinMatchResult(TRUE, "pinyin", textPinyinNoSpace, textStr,
                                   findMatchIndices(textPinyinNoSpace,
                                                    searchQuery))
            ELSE IF Includes(textInitials, queryLower)
            THEN PinyinMatchResult(TRUE, "initials", textInitials, textStr,
                                   findMatchIndices(textInitials, searchQuery))
            ELSE MatchParts(textStr, textPinyin, textInitials,
                            SplitWs(queryLower), 1)

\* a test that no match result passes
Matched_Never(matchResult) == FALSE

\* matchResult && matchResult.matched
Matched(matchResult) == matchResult # NullResult /\ matchResult.matched

\* PinyinSearch.isSingleCharPinyinMatch
isSingleCharPinyinMatch(text, query) ==
    IF query = <<>> \/ Len(query) # 1 THEN FALSE
    ELSE LET queryLower == LowerText(query)
         IN \/ Includes(LowerText(text), queryLower)
            \/ \E i \in 1..Len(text) :
                  /\ ~IsAlnum(text[i])
                  /\ \E p \in Members(getPinyin(<<text[i]>>)) :
                        <<ToLowerCase(p[1])>> = queryLower

\* PinyinSearch.isFullPinyinMatch
isFullPinyinMatch(text, query) ==
    IF query = <<>> \/ Len(query) < 2 THEN FALSE
    ELSE LET queryLower == LowerText(query)
             textPinyinWithSpace == LowerText(Join(getPinyin(text), <<" ">>))
             textPinyinNoSpace == LowerText(Join(getPinyin(text), <<>>))
             textInitials == LowerText(getPinyinInitials(text))
         IN \/ Includes(textPinyinWithSpace, queryLower)
            \/ Includes(textPinyinNoSpace, queryLower)
            \/ Includes(textInitials, queryLower)
            \/ \E word \in Members(SplitWs(textPinyinWithSpace)) :
                  StartsWith(word, queryLower)
            \/ \E i \in 0..(Len(textPinyinNoSpace) - Len(queryLower)) :
                  SubSeq(textPinyinNoSpace, i + 1, i + Len(queryLower))
                      = queryLower

\* PinyinSearch.enhancedMatch
enhancedMatch(text, queries) ==
    /\ text # <<>>
    /\ queries # <<>>
    /\ \E q \in 1..Len(queries) :
          LET query == queries[q]
          IN /\ query # <<>>
             /\ \/ Includes(LowerText(text), LowerText(query))
                \/ Matched(matchPinyin(text, query))
                \/ isSingleCharPinyinMatch(text, query)
                \/ isFullPinyinMatch(text, query)


(***************************************************************************)
(* The collector.  A document is the list of the text nodes the tree       *)
(* walker yields, in document order; a node is known to a match by its     *)
(* position in that list.  place tells where a node sits: "text" inside a  *)
(* .orca-repr container, "insert" inside an insert button, "tags" inside   *)
(* .orca-tags, "outside" in none of them, "detached" without a parent      *)
(* element.  top and left are those of the parent's rectangle, the text    *)
(* being laid out on one line from there; a node that is not displayed     *)
(* has no client rectangles.                                               *)
(***************************************************************************)
\* the cap on the list of matches
MatchCap == 300

\* window.innerHeight, window.innerWidth, and the boxes of the layout
InnerHeight == 700
InnerWidth == 80
CharWidth == 8
LineHeight == 18

TextNode(text, place, top, displayed) ==
    [text |-> text, place |-> place, top |-> top, left |-> 0,
     displayed |-> displayed]

\* range.getClientRects()[0] of the range that starts at offset index
RangeRect(node, index, length) ==
    [top |-> node.top, left |-> node.left + CharWidth * index,
     width |-> CharWidth * length]

\* rects.length > 0 and the first rectangle lies in the viewport
InViewport(node, rect) ==
    /\ node.displayed
    /\ rect.top >= 0 /\ rect.top <= InnerHeight
    /\ rect.left >= 0 /\ rect.left <= InnerWidth

\* the Match pushed for the range of a node
NewMatch(node, id, index, length, pinyinMatch) ==
    [node |-> id, index |-> index, length |-> length,
     rect |-> RangeRect(node, index, length), pinyinMatch |-> pinyinMatch]

\* the offset after index from which the search of the direct branch goes on,
\* were it to step over the occurrence it found
NextFrom_Disjoint(index, keyword) == index + Len(keyword)

\* the offset from which the search of the direct branch goes on
NextFrom(index, keyword) == index + 1

\* the while loop of the direct branch, index being an offset it found
RECURSIVE DirectLoop(_, _, _, _, _)
DirectLoop(matches, node, id, keyword, index) ==
    IF index = -1 THEN matches
    ELSE LET text == node.text
             rect == RangeRect(node, index, Len(keyword))
             pushed ==
                 IF /\ index >= 0 /\ index + Len(keyword) <= Len(text)
                    /\ InViewport(node, rect)
                 THEN Append(matches,
                             NewMatch(node, id, index, Len(keyword),
                                      PinyinMatchResult(TRUE, "direct", Null,
                                                        text, <<index>>)))
                 ELSE matches
         IN DirectLoop(pushed, node, id, keyword,
                       IndexOf(LowerText(text), LowerText(keyword),
                               NextFrom(index, keyword)))

\* the loop over matchResult.matchedIndices, from the i-th on
RECURSIVE PinyinLoop(_, _, _, _, _, _)
PinyinLoop(matches, node, id, keyword, matchResult, i) ==
    IF i > Len(matchResult.matchedIndices) THEN matches
    ELSE LET text == node.text
             matchIndex == matchResult.matchedIndices[i]
             endPosition == Min(matchIndex + Len(keyword), Len(text))
             rect == RangeRect(node, matchIndex, endPosition - matchIndex)
             pushed ==
                 IF /\ matchIndex >= 0 /\ matchIndex < Len(text)
                    /\ InViewport(node, rect)
                 THEN Append(matches,
                             NewMatch(node, id, matchIndex,
                                      endPosition - matchIndex, matchResult))
                 ELSE matches
         IN PinyinLoop(pushed, node, id, keyword, matchResult, i + 1)

\* the offsets of the direct occurrences, as findEnhancedMatchIndices
\* gathers them
EnhancedDirect(text, query) ==
    LET found == findMatchIndices(text, query)
    IN SelectSeq(found, LAMBDA index : index >= 0 /\ index < Len(text))

\* findEnhancedMatchIndices
findEnhancedMatchIndices(text, query) ==
    LET queryLower == LowerText(query)
        indices == IF Includes(LowerText(text), queryLower)
                   THEN EnhancedDirect(text, query) ELSE <<>>
        single == {i \in 0..(Len(text) - 1) :
                      /\ ~IsAlnum(text[i + 1])
                      /\ StartsWith(LowerText(getPinyin(<<text[i + 1]>>)[1]),
                                    queryLower)}
        full == {i \in 0..(Len(text) - 1) :
                    /\ ~IsAlnum(text[i + 1])
                    /\ LET charPinyin == getPinyin(<<text[i + 1]>>)
                           charPinyinStr == LowerText(Join(charPinyin, <<>>))
                           charInitial == <<ToLowerCase(charPinyin[1][1])>>
                       IN \/ Includes(charPinyinStr, queryLower)
                          \/ charInitial = queryLower
                          \/ Includes(LowerText(Join(charPinyin, <<" ">>)),
                                      queryLower)}
        all == Members(indices) \cup (IF Len(query) = 1 THEN single ELSE full)
    IN IF Len(query) = 1 /\ indices # <<>> THEN indices
       ELSE SortAscending({index \in all : index >= 0 /\ index < Len(text)})

\* the loop over enhancedMatchIndices, from the i-th on
RECURSIVE EnhancedLoop(_, _, _, _, _, _)
EnhancedLoop(matches, node, id, keyword, enhancedMatchIndices, i) ==
    IF i > Len(enhancedMatchIndices) THEN matches
    ELSE LET text == node.text
             matchIndex == enhancedMatchIndices[i]
             matchLength == Min(Len(keyword), Len(text) - matchIndex)
             endPosition == Min(matchIndex + matchLength, Len(text))
             rect == RangeRect(node, matchIndex, endPosition - matchIndex)
             pushed ==
                 IF InViewport(node, rect)
                 THEN Append(matches,
                             NewMatch(node, id, matchIndex, matchLength,
                                      PinyinMatchResult(TRUE, "enhanced",
                                                        keyword, text,
                                                        <<matchIndex>>)))
                 ELSE matches
         IN EnhancedLoop(pushed, node, id, keyword, enhancedMatchIndices, i + 1)

\* the body of the loop over the keywords, for one keyword
ScanKeyword(matches, node, id, keyword) ==
    LET text == node.text
        textLower == LowerText(text)
        keywordLower == LowerText(keyword)
        matchResult == matchPinyin(text, keyword)
    IN IF keyword = <<>> THEN matches
       ELSE IF Includes(textLower, keywordLower)
       THEN DirectLoop(matches, node, id, keyword,
                       IndexOf(textLower, keywordLower, 0))
       ELSE IF Matched(matchResult) /\ matchResult.matchedIndices # <<>>
       THEN PinyinLoop(matches, node, id, keyword, matchResult, 1)
       ELSE EnhancedLoop(matches, node, id, keyword,
                         findEnhancedMatchIndices(text, keyword), 1)

\* the loop over the keywords, from the i-th on
RECURSIVE ScanKeywords(_, _, _, _, _)
ScanKeywords(matches, node, id, keywords, i) ==
    IF i > Len(keywords) THEN matches
    ELSE ScanKeywords(ScanKeyword(matches, node, id, keywords[i]), node, id,
                      keywords, i + 1)

\* the node is one the walk looks into: it has a parent that sits in a
\* container or an insert button, outside the tags, and it has text
Scanned(node) ==
    /\ node.place \in {"text", "insert"}
    /\ node.text # <<>>

\* parentRect.bottom < 0 || parentRect.top > viewportBottom
ParentOffScreen(node) ==
    node.top + LineHeight < 0 \/ node.top > InnerHeight

\* the body of the loop over the text nodes, without its last line
ScanNode(matches, node, id, keywords) ==
    IF /\ Scanned(node)
       /\ enhancedMatch(node.text, keywords)
       /\ ~ParentOffScreen(node)
    THEN ScanKeywords(matches, node, id, keywords, 1)
    ELSE matches

\* the node leaves the body of the loop by one of its continue statements,
\* and so without the test of the cap
Continues(node, keywords) ==
    \/ ~Scanned(node)
    \/ enhancedMatch(node.text, keywords) /\ ParentOffScreen(node)

\* the loop over the text nodes, from the id-th on
RECURSIVE WalkFrom(_, _, _, _)
WalkFrom(matches, nodes, id, keywords) ==
    IF id > Len(nodes) THEN matches
    ELSE LET node == nodes[id]
             scanned == ScanNode(matches, node, id, keywords)
         IN IF Len(scanned) > MatchCap /\ ~Continues(node, keywords)
            THEN scanned
            ELSE WalkFrom(scanned, nodes, id + 1, keywords)

\* findVisibleMatchesWithPinyin
findVisibleMatchesWithPinyin(nodes, keywords) ==
    WalkFrom(<<>>, nodes, 1, keywords)


(***************************************************************************)
(* The collector specification: findVisibleMatchesWithPinyin applied to    *)
(* the documents of at most MaxNodes text nodes below and to the keyword   *)
(* lists below.  The object is as load() left it.                          *)
(***************************************************************************)
\* a run of MaxRun letters e
Run == [i \in 1..MaxRun |-> "e"]

TheThen == <<"T", "h", "e", " ", "t", "h", "e", "n">>
HelloWorld == <<"h", "e", "l", "l", "o", " ", "w", "o", "r", "l", "d">>
NiHaoShiJie == <<"U4F60", "U597D", "U4E16", "U754C">>
\* a Han character and a Latin letter in one text node
JieH == <<"U754C", "h">>
\* its last occurrence of "the" starts at offset 11, past the right edge
TheOtherThe ==
    <<"t", "h", "e", " ", "o", "t", "h", "e", "r", ",", " ", "t", "h", "e">>

\* text, place, whether the parent is above the viewport, whether the node
\* is displayed
Prose ==
    <<<<TheThen, "text", FALSE, TRUE>>,
      <<HelloWorld, "text", FALSE, TRUE>>,
      <<NiHaoShiJie, "text", FALSE, TRUE>>,
      <<TheOtherThe, "text", FALSE, TRUE>>,
      <<TheThen, "tags", FALSE, TRUE>>,
      <<HelloWorld, "text", TRUE, TRUE>>,
      <<TheThen, "insert", FALSE, TRUE>>,
      <<TheOtherThe, "text", FALSE, FALSE>>,
      <<NiHaoShiJie, "outside", FALSE, TRUE>>,
      <<<<>>, "text", FALSE, TRUE>>,
      <<HelloWorld, "detached", FALSE, TRUE>>,
      <<JieH, "text", FALSE, TRUE>>>>

\* the id-th text node of a document: one line of 20 pixels each
ProseNode(id, j) ==
    LET p == Prose[((j - 1) % Len(Prose)) + 1]
    IN TextNode(p[1], p[2], IF p[3] THEN -40 ELSE 20 * (id - 1), p[4])

RunNode(id) == TextNode(Run, "text", 20 * (id - 1), TRUE)

\* the runs that fill the list of matches up to the cap, and no further
RunsToCap == MatchCap \div MaxRun

DocumentKinds == {"runs", "prose", "runs then prose"}

Document(kind, n) ==
    [id \in 1..n |->
        CASE kind = "runs" -> RunNode(id)
          [] kind = "prose" -> ProseNode(id, id)
          [] kind = "runs then prose" ->
               IF id <= RunsToCap THEN RunNode(id)
               ELSE ProseNode(id, id - RunsToCap)]

Documents == {Document(kind, n) : kind \in DocumentKinds, n \in 0..MaxNodes}

KeywordLists ==
    {<<<<"e">>>>, <<<<"e", "e">>>>, <<<<"t", "h", "e">>>>,
     <<<<"T", "H", "E">>>>, <<<<"e">>, <<"t", "h", "e">>>>,
     <<<<"n", "i", "h", "a", "o">>>>, <<<<"n", "h">>>>,
     <<<<"h">>, <<"j">>>>, <<<<"t", "h", "e">>, <<"T", "H", "E">>>>}

InitCollect ==
    /\ SessionAsLoaded
    /\ \E nodes \in Documents, keywords \in KeywordLists :
          call = [fn |-> "findVisibleMatchesWithPinyin",
                  args |-> [nodes |-> nodes, keywords |-> keywords],
                  done |-> FALSE, ret |-> <<>>]

\* const matches = this.findVisibleMatchesWithPinyin(keywords)
CollectReturn ==
    /\ call.fn = "findVisibleMatchesWithPinyin"
    /\ ~call.done
    /\ call' = [call EXCEPT
                   !.done = TRUE,
                   !.ret = findVisibleMatchesWithPinyin(call.args.nodes,
                                                        call.args.keywords)]
    /\ SessionUnchanged

NextCollect == CollectReturn

SpecCollect == InitCollect /\ [][NextCollect]_vars


(***************************************************************************)
(* The matcher specification: PinyinSearch.matchPinyin applied to the      *)
(* texts and queries below.  The object is as load() left it.              *)
(***************************************************************************)
\* a Han character before a capitalised word
ShiThe == <<"U4E16", "T", "h", "e">>

MatchTexts ==
    {TheThen, HelloWorld, NiHaoShiJie, TheOtherThe, JieH, ShiThe, Run}

QueryLetters == {"t", "h", "e", "T", "n"}

\* every query of at most MaxQueryLen of the letters, and some longer ones
MatchQueries ==
    UNION {[1..k -> QueryLetters] : k \in 1..MaxQueryLen}
        \cup {<<"T", "H", "E">>, <<"n", "i", "h", "a", "o">>,
              <<"n", "i", " ", "h", "a", "o">>, <<"h", "a", "o">>,
              <<"s", "h", "i", "j">>, <<"x", " ", "j", "i", "e">>,
              <<"U597D", "U4E16">>, <<"o", " ", "w">>, <<"x", "y">>}

InitMatch ==
    /\ SessionAsLoaded
    /\ \E text \in MatchTexts, query \in MatchQueries :
          call = [fn |-> "matchPinyin",
                  args |-> [text |-> text, query |-> query],
                  done |-> FALSE, ret |-> NullResult]

\* const matchResult = PinyinSearch.matchPinyin(text, query)
MatchReturn ==
    /\ call.fn = "matchPinyin"
    /\ ~call.done
    /\ call' = [call EXCEPT
                   !.done = TRUE,
                   !.ret = matchPinyin(call.args.text, call.args.query)]
    /\ SessionUnchanged

NextMatch == MatchReturn

SpecMatch == InitMatch /\ [][NextMatch]_vars

(***************************************************************************)
(* matchPinyin as it runs: its tests choose the string findMatchIndices    *)
(* is to search and the query or part to search for, and the while loop of *)
(* findMatchIndices then runs one iteration at a step.                     *)
(***************************************************************************)
\* the list of the loop is kept to its first MaxPushes entries
MaxPushes == 16

\* no test of matchPinyin has passed
NoSearch == [type |-> "none", pinyin |-> Null, searched |-> <<>>, part |-> <<>>]

\* the loop over queryParts of matchPinyin, from part i on: the arguments of
\* the findMatchIndices call it reaches
RECURSIVE PartSearch(_, _, _, _)
PartSearch(textPinyin, textInitials, queryParts, i) ==
    IF i > Len(queryParts) THEN NoSearch
    ELSE LET part == queryParts[i]
         IN IF Includes(LowerText(textPinyin), part)
            THEN [type |-> "partial-pinyin", pinyin |-> textPinyin,
                  searched |-> textPinyin, part |-> part]
            ELSE IF Includes(textInitials, part)
            THEN [type |-> "partial-initials", pinyin |-> textInitials,
                  searched |-> textInitials, part |-> part]
            ELSE PartSearch(textPinyin, textInitials, queryParts, i + 1)

\* the tests of matchPinyin on the strings it has computed, in their order
MatchTests(textStr, searchQuery, textPinyin, textPinyinNoSpace, textInitials, queryLower) ==
    IF Includes(textStr, searchQuery)
    THEN [type |-> "direct", pinyin |-> Null, searched |-> textStr,
          part |-> searchQuery]
    ELSE IF Includes(LowerText(textPinyin), queryLower)
    THEN [type |-> "pinyin", pinyin |-> textPinyin,
          searched |-> textPinyin, part |-> searchQuery]
    ELSE IF Includes(LowerText(textPinyinNoSpace), queryLower)
    THEN [type |-> "pinyin", pinyin |-> textPinyinNoSpace,
          searched |-> textPinyinNoSpace, part |-> searchQuery]
    ELSE IF Includes(textInitials, queryLower)
    THEN [type |-> "initials", pinyin |-> textInitials,
          searched |-> textInitials, part |-> searchQuery]
    ELSE PartSearch(textPinyin, textInitials, SplitWs(queryLower), 1)

\* matchPinyin on a non-empty text and query, up to its findMatchIndices
\* call: the strings are computed once, then tested
MatchSearch(searchText, searchQuery) ==
    CHOOSE found \in
        {MatchTests(searchText, searchQuery, s[1], s[2], s[3], s[4]) :
            s \in {<<Join(getPinyin(searchText), <<" ">>),
                     Join(getPinyin(searchText), <<>>),
                     getPinyinInitials(searchText),
                     LowerText(searchQuery)>>}} : TRUE

SearchTexts == {TheThen, NiHaoShiJie, JieH, ShiThe}

SearchLetters == {" ", "h", "j", "x"}

\* every non-empty query of at most MaxQueryLen of the letters, a space
\* among them, and some longer ones
SearchQueries ==
    UNION {[1..k -> SearchLetters] : k \in 1..MaxQueryLen}
        \cup {<<"n", "i", " ", "h", "a", "o">>, <<" ", "t", "h", "e">>,
              <<"t", "h", "e", " ">>, <<"x", " ", "j", "i", "e">>}

InitSearch ==
    /\ SessionAsLoaded
    /\ \E text \in SearchTexts, query \in SearchQueries :
          call = [fn |-> "matchPinyin",
                  args |-> [text |-> text, query |-> query],
                  done |-> FALSE, ret |-> NullResult,
                  at |-> "entry", search |-> NoSearch,
                  index |-> -1, indices |-> <<>>]

\* matchPinyin from its entry to the first indexOf of findMatchIndices, or
\* to its last return when no test passes
MatchPinyinEnter ==
    /\ call.fn = "matchPinyin"
    /\ call.at = "entry"
    /\ \E found \in {MatchSearch(call.args.text, call.args.query)} :
          IF found.type = "none"
          THEN call' = [call EXCEPT
                           !.at = "returned", !.done = TRUE,
                           !.ret = PinyinMatchResult(FALSE, "none", Null,
                                                     call.args.text, <<>>)]
          ELSE call' = [call EXCEPT
                           !.at = "while", !.search = found,
                           !.index = IndexOf(LowerText(found.searched),
                                             LowerText(found.part), 0)]
    /\ SessionUnchanged

\* one iteration of the while loop: indices.push(index), the next indexOf
FindMatchIndicesPush ==
    /\ call.fn = "matchPinyin"
    /\ call.at = "while"
    /\ call.index # -1
    /\ call' = [call EXCEPT
                   !.indices = IF Len(@) < MaxPushes
                               THEN Append(@, call.index) ELSE @,
                   !.index = IndexOf(LowerText(call.search.searched),
                                     LowerText(call.search.part),
                                     call.index + 1)]
    /\ SessionUnchanged

\* the loop has ended: findMatchIndices returns, and matchPinyin with it
FindMatchIndicesReturn ==
    /\ call.fn = "matchPinyin"
    /\ call.at = "while"
    /\ call.index = -1
    /\ call' = [call EXCEPT
                   !.at = "returned", !.done = TRUE,
                   !.ret = PinyinMatchResult(TRUE, call.search.type,
                                             call.search.pinyin,
                                             call.args.text, call.indices)]
    /\ SessionUnchanged

NextSearch ==
    \/ MatchPinyinEnter
    \/ FindMatchIndicesPush
    \/ FindMatchIndicesReturn

\* the call runs on: a step that can be taken is taken
SpecSearch == InitSearch /\ [][NextSearch]_vars /\ WF_vars(NextSearch)


(***************************************************************************)
(* The document specification: one session, from the open search bar to    *)
(* its end, on a document of two text nodes, the matches of the query      *)
(* being those the collector finds in the document for its keywords.       *)
(***************************************************************************)
TheEnd == <<"t", "h", "e", " ", "e", "n", "d">>
OverThe == <<"o", "v", "e", "r", " ", "t", "h", "e">>

\* two text nodes, one line each, the first at the top of the viewport
TwoNodes(first, second) ==
    <<TextNode(first, "text", 0, TRUE), TextNode(second, "text", 20, TRUE)>>

HelloDocument == TwoNodes(HelloWorld, NiHaoShiJie)
TheDocument == TwoNodes(TheEnd, OverThe)

SessionDocuments ==
    {HelloDocument, TheDocument, TwoNodes(TheThen, JieH),
     TwoNodes(TheOtherThe, HelloWorld)}

\* the text of the bar's input when Enter is pressed
DocumentValues ==
    {<<"n", "i", "h", "a", "o">>, <<"t", "h", "e">>, <<" ", "e">>,
     <<"h", " ", "j">>, <<"x", "y">>}

\* this.findVisibleMatches(this.targetKeywords), the input holding value
FoundIn(nodes, value) ==
    findVisibleMatchesWithPinyin(nodes, SplitWs(Trim(value)))

\* Enter in the bar's input, the document being nodes
SubmitDocument(value, nodes) ==
    /\ listening
    /\ searchBar
    /\ \E next \in {Dispatch(Fresh, KeyEvent("Enter", FALSE, 0), TRUE,
                              value, FoundIn(nodes, value))} :
           WithinBounds(next) /\ Becomes(next)

SubmitInDocument ==
    \E value \in DocumentValues, nodes \in SessionDocuments :
        SubmitDocument(value, nodes)

NextDocument ==
    \/ SubmitInDocument
    \/ LabelKeyPress
    \/ PointerDown
    \/ Scroll
    \/ ToastTimer
    \/ ToastRemove
    \/ FlashRemove

SpecDocument == InitLarge /\ [][NextDocument]_vars


(***************************************************************************)
(* Vocabulary of the properties.                                           *)
(***************************************************************************)
Idle == ~active /\ ~waitingForInput
AwaitingQuery == waitingForInput
Active == active

\* the keys the Active branch hands to checkHints
IsAlphabetKey(key) == CharactersInclude(ToLowerCase(key))

\* the arguments jumpTo gets for a hint or a match
SpanOf(h) ==
    [kind |-> "jump", node |-> h.node, index |-> h.index, length |-> h.length]

\* the labels and spans of a hint list, without the markers' styles
Spans(hs) == [i \in 1..Len(hs) |-> [label |-> hs[i].label, span |-> SpanOf(hs[i])]]

\* the site of the page a hint or match is on (the inverse of SiteMatch)
SiteOf(h) == 4 * (h.node - 1) + (h.index \div 3)

NextBuffer(key) == inputBuffer \o <<ToLowerCase(key)>>

InAlphabet(label) ==
    \A i \in 1..Len(label) : \E j \in 1..Len(characters) : label[i] = characters[j]


\* the state a press of key leaves, the focus in the document
AfterKeyDown(key) ==
    Dispatch(Fresh, KeyEvent(key, FALSE, 0), FALSE, <<>>, <<>>)

\* the state a press of key leaves, the focus in the bar's input
AfterBarKeyDown(key, repeat) ==
    Dispatch(Fresh, KeyEvent(key, repeat, 0), TRUE, <<>>, <<>>)

\* the state Enter leaves, the bar's input holding value, on the page of n
\* matches
AfterSubmit(value, n, layout) ==
    Dispatch(Fresh, KeyEvent("Enter", FALSE, 0), TRUE, value,
             PageMatches(n, layout))

(***************************************************************************)
(* C1: in Active, a press of an alphabet key that makes the buffer equal   *)
(* to a hint's label jumps to the span of that hint, and of no other, and  *)
(* leaves the session Idle with no hints.                                  *)
(***************************************************************************)
C1_ExactLabelJumps ==
    \A key \in Keys : \A i \in 1..Len(hints) :
        (active /\ IsAlphabetKey(key) /\ hints[i].label = NextBuffer(key))
        => LET after == AfterKeyDown(key)
           IN /\ after.jumped = SpanOf(hints[i])
              /\ after.selection = JumpRange(hints[i].node, hints[i].index,
                                             hints[i].length)
              /\ ~after.active /\ ~after.waitingForInput
              /\ after.hints = <<>>
              /\ ~after.container

\* "q" then "w" has jumped to the second of thirteen candidates
C1_Witness ==
    /\ Idle
    /\ inputBuffer = <<"q">>
    /\ jumped = [kind |-> "jump", node |-> 1, index |-> 3, length |-> 2]
    /\ selection = [kind |-> "caret", node |-> 1, offset |-> 5]
    /\ hints = <<>>

(***************************************************************************)
(* C2: in Active, a press of an alphabet key that makes the buffer a       *)
(* proper prefix of some label, and equal to none, appends the key to the  *)
(* buffer, makes no jump and keeps the session Active with the same hints. *)
(***************************************************************************)
C2_PrefixNarrows ==
    \A key \in Keys :
        (/\ active
         /\ IsAlphabetKey(key)
         /\ \A i \in 1..Len(hints) : hints[i].label # NextBuffer(key)
         /\ \E i \in 1..Len(hints) : StartsWith(hints[i].label, NextBuffer(key)))
        => LET after == AfterKeyDown(key)
           IN /\ after.active /\ ~after.waitingForInput
              /\ after.inputBuffer = NextBuffer(key)
              /\ after.jumped = NoJump
              /\ after.selection = selection
              /\ Spans(after.hints) = Spans(hints)

\* "w" typed on thirteen hints: the one label "wq" is still possible
C2_Witness ==
    /\ Active
    /\ inputBuffer = <<"w">>
    /\ Len(hints) = 13
    /\ jumped = NoJump
    /\ Cardinality({i \in 1..Len(hints) : ~hints[i].dimmed}) = 1

(***************************************************************************)
(* C3: in Active, a press of an alphabet key that makes the buffer a       *)
(* prefix of no label, or of a key that is neither in the alphabet nor     *)
(* Escape, Backspace or Alt, changes nothing and makes no jump.            *)
(***************************************************************************)
Rejected(key) ==
    \/ /\ IsAlphabetKey(key)
       /\ \A i \in 1..Len(hints) : ~StartsWith(hints[i].label, NextBuffer(key))
    \/ /\ ~IsAlphabetKey(key)
       /\ key \notin {"Escape", "Backspace", "Alt"}

C3_RejectedKeyChangesNothing ==
    \A key \in Keys :
        (active /\ Rejected(key)) => AfterKeyDown(key) = Fresh

\* after "w" on thirteen hints a second "w" is the prefix of no label, and
\* "u" is no key of the alphabet
C3_Witness ==
    /\ Active
    /\ inputBuffer = <<"w">>
    /\ Rejected("w")
    /\ Rejected("u")
    /\ ~Rejected("q")

(***************************************************************************)
(* C4: in Active, Backspace removes the last character of a non-empty      *)
(* buffer and does nothing to an empty one; the session stays Active with  *)
(* the same hints, and afterwards a marker is at full emphasis exactly     *)
(* when its label starts with the buffer.                                  *)
(***************************************************************************)
C4_Backspace ==
    active
    => LET after == AfterKeyDown("Backspace")
       IN /\ after.inputBuffer =
                 IF inputBuffer = <<>> THEN <<>>
                 ELSE SubSeq(inputBuffer, 1, Len(inputBuffer) - 1)
          /\ after.active /\ ~after.waitingForInput
          /\ Spans(after.hints) = Spans(hints)
          /\ \A i \in 1..Len(after.hints) :
                ~after.hints[i].dimmed
                    <=> StartsWith(after.hints[i].label, after.inputBuffer)
          /\ after.jumped = NoJump

\* a state Backspace undoes: "w" typed, the twelve "q" markers dimmed
C4_Witness ==
    /\ Active
    /\ inputBuffer = <<"w">>
    /\ Cardinality({i \in 1..Len(hints) : hints[i].dimmed}) = 12
    /\ AfterKeyDown("Backspace").inputBuffer = <<>>

(***************************************************************************)
(* C5: in every reachable state the labels of the live hints are pairwise  *)
(* distinct.                                                               *)
(***************************************************************************)
C5_LabelsDistinct ==
    Cardinality({hints[i].label : i \in 1..Len(hints)}) = Len(hints)

C7_LabelsWellFormed ==
    /\ \A i \in 1..Len(hints) :
          Len(hints[i].label) \in {1, 2} /\ InAlphabet(hints[i].label)
    /\ Len(hints) <= Len(characters) * Len(characters)

(***************************************************************************)
(* C8: for N <= |alphabet|^2 + |alphabet| candidates the labels are        *)
(* pairwise distinct, and no label of one character is assigned after a    *)
(* label of two.                                                           *)
(***************************************************************************)
C8_Injective ==
    (active /\ Len(hints) <= Len(characters) * Len(characters) + Len(characters))
    => /\ Cardinality({hints[i].label : i \in 1..Len(hints)}) = Len(hints)
       /\ LET ones == {SiteOf(hints[i]) :
                          i \in {j \in 1..Len(hints) : Len(hints[j].label) = 1}}
              twos == {SiteOf(hints[i]) :
                          i \in {j \in 1..Len(hints) : Len(hints[j].label) = 2}}
          IN \A a \in ones : \A b \in twos : a < b

\* the longest list of the claim: 156 candidates, 156 hints
C8_Witness ==
    /\ active
    /\ Len(hints) = Len(characters) * Len(characters) + Len(characters)
    /\ \E i \in 1..Len(hints) : hints[i].label = <<"v", "v">>

(***************************************************************************)
(* C9: the snapshot saved when the bar opens is the selection of that      *)
(* moment and is kept while the session lasts; Escape, in AwaitingQuery or *)
(* in Active with any buffer, ends the session in Idle and puts the        *)
(* selection back to the snapshot when there is one.                       *)
(***************************************************************************)
EscapeRestores(after) ==
    /\ ~after.active /\ ~after.waitingForInput
    /\ after.hints = <<>>
    /\ savedRange # NoRange => after.selection = savedRange
    /\ after.jumped = NoJump

C9_EscapeRestores ==
    [][/\ (Idle /\ ~Idle') => savedRange' = selection
       /\ (~Idle /\ ~Idle') => savedRange' = savedRange
       /\ ~Idle => EscapeRestores(AfterKeyDown("Escape"))
       /\ searchBar =>
             \A repeat \in BOOLEAN :
                 EscapeRestores(AfterBarKeyDown("Escape", repeat))]_vars

\* a session opened on the user's caret, "w" typed, then cancelled: the
\* selection is the caret again, not the bar and not a jump target
C9_Witness ==
    /\ Idle
    /\ listening
    /\ inputBuffer = <<"w">>
    /\ selection = UserRange
    /\ savedRange = NoRange
    /\ jumped = NoJump

(***************************************************************************)
(* C10: Enter on a non-empty query whose page has no match after           *)
(* deduplication leaves, when the handler returns, the session Idle with   *)
(* no hints, the "not found" toast shown and no jump made.                 *)
(***************************************************************************)
C10_NoMatchEndsIdle ==
    \A value \in InputValues, n \in Candidates, layout \in Layouts :
        (/\ searchBar
         /\ Trim(value) # <<>>
         /\ removeDuplicateMatches(PageMatches(n, layout)) = <<>>)
        => LET after == AfterSubmit(value, n, layout)
           IN /\ ~after.active /\ ~after.waitingForInput
              /\ after.hints = <<>>
              /\ ~after.container /\ ~after.searchBar
              /\ after.toasts =
                    Append(toasts,
                           [message |-> [kind |-> "notfound",
                                         keywords |-> SplitWs(Trim(value))],
                            opacity |-> 1])
              /\ after.jumped = NoJump

\* the toast of the query "the" is up, the session over
C10_Witness ==
    /\ Idle
    /\ hints = <<>>
    /\ jumped = NoJump
    /\ targetKeywords = <<<<"t", "h", "e">>>>
    /\ toasts = <<[message |-> [kind |-> "notfound",
                                keywords |-> <<<<"t", "h", "e">>>>],
                   opacity |-> 1]>>

(***************************************************************************)
(* C11: Enter on a query of which one match is left after deduplication    *)
(* jumps to that match, creates no label and no hint and leaves the        *)
(* session Idle when the handler returns; the session is never Active      *)
(* with fewer than two hints.                                              *)
(***************************************************************************)
C11_SingleMatchJumps ==
    /\ active => Len(hints) >= 2
    /\ \A value \in InputValues, n \in Candidates, layout \in Layouts :
          LET matches == removeDuplicateMatches(PageMatches(n, layout))
          IN (searchBar /\ Trim(value) # <<>> /\ Len(matches) = 1)
             => LET after == AfterSubmit(value, n, layout)
                IN /\ after.jumped = SpanOf(matches[1])
                   /\ after.selection = JumpRange(matches[1].node,
                                                  matches[1].index,
                                                  matches[1].length)
                   /\ ~after.active /\ ~after.waitingForInput
                   /\ after.hints = <<>>
                   /\ ~after.container /\ ~after.scrollBound

\* the one match of a page has been jumped to: its flash and its toast are
\* up, no key was typed
C11_Witness ==
    /\ Idle
    /\ jumped = [kind |-> "jump", node |-> 1, index |-> 0, length |-> 2]
    /\ inputBuffer = <<>>
    /\ hints = <<>>
    /\ flashes = 1
    /\ \E i \in 1..Len(toasts) : toasts[i].message.kind = "pinyin"

\* the state a press of Alt leaves when Date.now() reads now
AfterAltKeyDown(now) ==
    Dispatch(Fresh, KeyEvent("Alt", FALSE, now), searchBar, <<>>, <<>>)

(***************************************************************************)
(* C12: in Idle a press of Alt less than 300 ms after the stored press     *)
(* opens the bar and saves the selection; a press 300 ms or more after it, *)
(* or with no press stored, leaves the session Idle and is stored; the     *)
(* press that opens the bar is not stored.                                 *)
(***************************************************************************)
C12_DoublePressOpens ==
    \A now \in Times :
        (Idle /\ listening /\ now >= lastAltPressTime)
        => LET after == AfterAltKeyDown(now)
           IN IF lastAltPressTime # 0 /\ now - lastAltPressTime < AltWindow
              THEN /\ after.waitingForInput /\ ~after.active
                   /\ after.searchBar
                   /\ after.savedRange = selection
                   /\ after.lastAltPressTime = 0
              ELSE after = [Fresh EXCEPT !.lastAltPressTime = now]

\* the bar is open on the user's caret, the second press not stored
C12_Witness ==
    /\ AwaitingQuery
    /\ searchBar
    /\ savedRange = UserRange
    /\ lastAltPressTime = 0
    /\ targetKeywords = <<>>

(***************************************************************************)
(* C13: a double press of Alt in AwaitingQuery or Active leaves the        *)
(* session Idle, the bar and the hints removed, and opens no bar.          *)
(***************************************************************************)
C13_DoublePressCloses ==
    \A now \in Times :
        (/\ ~Idle
         /\ now >= lastAltPressTime
         /\ now - lastAltPressTime < AltWindow)
        => LET after == AfterAltKeyDown(now)
           IN /\ ~after.active /\ ~after.waitingForInput
              /\ ~after.searchBar
              /\ ~after.container
              /\ after.hints = <<>>

\* a session with hints in which Alt was pressed once, 299 ms ago at most
C13_Witness ==
    /\ Active
    /\ Len(hints) >= 2
    /\ lastAltPressTime = AltWindow
    /\ ~AfterAltKeyDown(2 * AltWindow - 1).active

(***************************************************************************)
(* C14: a scroll or wheel event in Active leaves the session Idle with no  *)
(* hints, whatever the buffer; in Idle and AwaitingQuery the listener is   *)
(* not attached, and its handler would change nothing.                     *)
(***************************************************************************)
C14_ScrollDismisses ==
    /\ active
       => /\ scrollBound
          /\ LET after == autoDismiss(Fresh)
             IN /\ ~after.active /\ ~after.waitingForInput
                /\ after.hints = <<>>
                /\ ~after.container
    /\ ~active
       => /\ ~scrollBound
          /\ autoDismiss(Fresh) = Fresh

\* a state a scroll ends: thirteen hints, "w" typed
C14_Witness ==
    /\ Active
    /\ scrollBound
    /\ inputBuffer = <<"w">>
    /\ autoDismiss(Fresh).hints = <<>>

(***************************************************************************)
(* C15: the step that applies the snapshot discards it, and no snapshot    *)
(* is kept in Idle: a snapshot is applied once at most.                    *)
(***************************************************************************)
C15_SnapshotUsedOnce ==
    [][/\ Idle => savedRange = NoRange
       /\ Idle' => savedRange' = NoRange
       /\ (savedRange # NoRange /\ selection # savedRange
             /\ selection' = savedRange)
          => savedRange' = NoRange
       /\ ~Idle => deactivate(Fresh).savedRange = NoRange]_vars

\* the user's caret was put back, and is kept no longer
C15_Witness ==
    /\ Idle
    /\ selection = UserRange
    /\ savedRange = NoRange
    /\ targetKeywords # <<>>
    /\ jumped = NoJump
    /\ inputBuffer = <<"q">>

(***************************************************************************)
(* C16: when a handler has called jumpTo, for a typed label or for the     *)
(* single match of a page, and the host has no selection object or raises  *)
(* on setting the range, the handler still leaves the session Idle with    *)
(* all hints removed.                                                      *)
(***************************************************************************)
C16_FailedJumpEndsIdle ==
    jumped # NoJump
    => /\ ~active /\ ~waitingForInput
       /\ hints = <<>>
       /\ ~container

\* the first rectangles of a and b are less than 5 apart on both axes
Near(a, b) ==
    /\ Abs(a.rect.top - b.rect.top) < 5
    /\ Abs(a.rect.left - b.rect.left) < 5

\* removeDuplicateMatches has returned
Deduplicated == call.fn = "removeDuplicateMatches" /\ call.done

(***************************************************************************)
(* C18: what removeDuplicateMatches returns is a subsequence of its        *)
(* argument, in the argument's order, in which no two matches are less     *)
(* than 5 apart in both top and left; every match it dropped is that near  *)
(* to a kept match that comes earlier in the argument.                     *)
(***************************************************************************)
C18_DedupKeepsFirstSeen ==
    Deduplicated
    => LET L == call.args
           U == call.ret
       IN /\ \A j \in 1..Len(U) : \E i \in 1..Len(L) : U[j] = L[i]
          /\ \A j, k \in 1..Len(U) : j < k => U[j].node < U[k].node
          /\ \A j, k \in 1..Len(U) : j # k => ~Near(U[j], U[k])
          /\ \A i \in 1..Len(L) :
                (\A j \in 1..Len(U) : U[j] # L[i])
                => \E j \in 1..Len(U) : U[j].node < L[i].node /\ Near(U[j], L[i])

\* 0, 6, 3 on one line: the third is near both survivors and is dropped
C18_Witness ==
    /\ Deduplicated
    /\ Len(call.args) = 3
    /\ call.args[1].rect.left = 0
    /\ call.args[2].rect.left = 6
    /\ call.args[3].rect.left = 3
    /\ call.ret = SubSeq(call.args, 1, 2)

(***************************************************************************)
(* C19: removeDuplicateMatches returns the list it is given when that      *)
(* list is one it has returned.                                            *)
(***************************************************************************)
C19_DedupIdempotent ==
    Deduplicated => removeDuplicateMatches(call.ret) = call.ret

\* four matches became two, and the two stay two
C19_Witness ==
    /\ Deduplicated
    /\ Len(call.args) = 4
    /\ Len(call.ret) = 2
    /\ removeDuplicateMatches(call.ret) = call.ret

\* findVisibleMatchesWithPinyin has returned
Collected == call.fn = "findVisibleMatchesWithPinyin" /\ call.done

(***************************************************************************)
(* C17: findVisibleMatchesWithPinyin never returns more than 300 matches,  *)
(* whatever the text nodes of the document, the occurrences in each of     *)
(* them, and the keywords.                                                 *)
(***************************************************************************)
C17_AtMostCap ==
    Collected => Len(call.ret) <= MatchCap

\* the offsets at which keyword reads in text, letter case aside
Occurrences(text, keyword) ==
    {i \in 0..(Len(text) - Len(keyword)) :
        LowerText(SubSeq(text, i + 1, i + Len(keyword))) = LowerText(keyword)}

\* the direct matches returned for offset i of node id, of length n
DirectAt(id, i, n) ==
    {j \in 1..Len(call.ret) :
        /\ call.ret[j].node = id
        /\ call.ret[j].index = i
        /\ call.ret[j].length = n
        /\ call.ret[j].pinyinMatch.type = "direct"}

\* the keywords of the call that are keyword, letter case aside
SameTokens(keyword) ==
    {q \in 1..Len(call.args.keywords) :
        LowerText(call.args.keywords[q]) = LowerText(keyword)}

\* a text node on screen: displayed, with text, in a container or an insert
\* button, its parent's box meeting the viewport
VisibleSpan(node) ==
    /\ Scanned(node)
    /\ node.displayed
    /\ ~ParentOffScreen(node)

\* the walk over the text nodes gets to node id: the nodes before it have
\* not taken the list of matches over the cap
Reached(id) ==
    Len(findVisibleMatchesWithPinyin(SubSeq(call.args.nodes, 1, id - 1),
                                     call.args.keywords)) <= MatchCap

\* every match returned on node id that is not a direct one is one the
\* loop body pushes for a keyword that does not read in the text of the node
OthersFromOtherTokens(id) ==
    LET node == call.args.nodes[id]
    IN \A j \in 1..Len(call.ret) :
          (call.ret[j].node = id /\ call.ret[j].pinyinMatch.type # "direct")
          => \E q \in 1..Len(call.args.keywords) :
                LET other == call.args.keywords[q]
                IN /\ Occurrences(node.text, other) = {}
                   /\ call.ret[j] \in
                          Members(ScanKeyword(<<>>, node, id, other))

(***************************************************************************)
(* C20 as stated: for every text node on screen and every keyword that     *)
(* reads in its text, letter case aside, the matches returned hold one     *)
(* direct match of the keyword's length for every offset at which the      *)
(* keyword reads, overlapping offsets included, and no pinyin or enhanced  *)
(* match for that keyword on that node.                                    *)
(***************************************************************************)
C20_EveryOccurrence ==
    Collected
    => \A id \in 1..Len(call.args.nodes), q \in 1..Len(call.args.keywords) :
          LET node == call.args.nodes[id]
              keyword == call.args.keywords[q]
          IN (VisibleSpan(node) /\ Occurrences(node.text, keyword) # {})
             => /\ \A i \in Occurrences(node.text, keyword) :
                      Cardinality(DirectAt(id, i, Len(keyword)))
                          = Cardinality(SameTokens(keyword))
                /\ OthersFromOtherTokens(id)

(***************************************************************************)
(* C20, amended: for every text node on screen that the walk reaches       *)
(* before the cap ends it, and every keyword that reads in its text,       *)
(* letter case aside, the matches returned hold one direct match of the    *)
(* keyword's length for every offset at which the keyword reads and whose  *)
(* own first rectangle lies in the viewport, overlapping offsets included, *)
(* none for the offsets whose rectangle lies outside, and no pinyin or     *)
(* enhanced match for that keyword on that node.                           *)
(***************************************************************************)
C20_EveryOccurrenceInView ==
    Collected
    => \A id \in 1..Len(call.args.nodes), q \in 1..Len(call.args.keywords) :
          LET node == call.args.nodes[id]
              keyword == call.args.keywords[q]
          IN (/\ VisibleSpan(node)
              /\ Occurrences(node.text, keyword) # {}
              /\ Reached(id))
             => /\ \A i \in Occurrences(node.text, keyword) :
                      Cardinality(DirectAt(id, i, Len(keyword)))
                          = IF InViewport(node,
                                          RangeRect(node, i, Len(keyword)))
                            THEN Cardinality(SameTokens(keyword))
                            ELSE 0
                /\ OthersFromOtherTokens(id)

\* "ee" in a run of the letter e: the occurrences at 0 and 1 overlap, and
\* both are returned
C20_Witness ==
    /\ Collected
    /\ call.args.keywords = <<<<"e", "e">>>>
    /\ Len(call.args.nodes) >= 1
    /\ call.args.nodes[1].text = Run
    /\ Occurrences(Run, <<"e", "e">>) = 0..(MaxRun - 2)
    /\ \A i \in 0..(MaxRun - 2) : Cardinality(DirectAt(1, i, 2)) = 1

(***************************************************************************)
(* C21: for every text node on screen that the walk reaches and every      *)
(* keyword that does not read in its text, when matchPinyin returns a      *)
(* match with k >= 1 matched indices, the loop body pushes k matches for   *)
(* that keyword on that node, all of them returned, each with its range    *)
(* inside the text.                                                        *)
(***************************************************************************)
C21_OnePerMatchedIndex ==
    Collected
    => \A id \in 1..Len(call.args.nodes), q \in 1..Len(call.args.keywords) :
          LET node == call.args.nodes[id]
              keyword == call.args.keywords[q]
              matchResult == matchPinyin(node.text, keyword)
              pushed == ScanKeyword(<<>>, node, id, keyword)
          IN (/\ VisibleSpan(node)
              /\ Reached(id)
              /\ Occurrences(node.text, keyword) = {}
              /\ Matched(matchResult)
              /\ Len(matchResult.matchedIndices) >= 1)
             => /\ Len(pushed) = Len(matchResult.matchedIndices)
                /\ \A j \in 1..Len(pushed) :
                      /\ pushed[j] \in Members(call.ret)
                      /\ pushed[j].index + pushed[j].length <= Len(node.text)

MatcherReturned == call.fn = "matchPinyin" /\ call.done

(***************************************************************************)
(* C23: whenever the query reads in the text, letter case aside,           *)
(* matchPinyin returns a match of type direct with at least one matched    *)
(* index, and every matched index is an offset at which the query reads in *)
(* the text, letter case aside.                                            *)
(***************************************************************************)
C23_DirectForSubstring ==
    (MatcherReturned /\ Occurrences(call.args.text, call.args.query) # {})
    => /\ call.ret.matched
       /\ call.ret.type = "direct"
       /\ call.ret.matchedIndices # <<>>
       /\ Members(call.ret.matchedIndices)
              \subseteq Occurrences(call.args.text, call.args.query)

\* the state Enter leaves, the bar's input holding value, the document
\* being nodes
AfterSubmitDocument(value, nodes) ==
    Dispatch(Fresh, KeyEvent("Enter", FALSE, 0), TRUE, value,
             FoundIn(nodes, value))

\* the state a press of key, the focus in the document, makes of state s
KeyDownIn(s, key) ==
    Dispatch([s EXCEPT !.jumped = NoJump], KeyEvent(key, FALSE, 0), FALSE,
             <<>>, <<>>)

(***************************************************************************)
(* C24: on the document of the text nodes "hello world" and U+4F60 U+597D  *)
(* U+4E16 U+754C (ni hao shi jie), the query "nihao" has exactly one       *)
(* match, on the second node, found in the pinyin joined without spaces;   *)
(* Enter on that query leaves the buffer empty, creates no hint, jumps to  *)
(* that match and leaves the session Idle.                                 *)
(***************************************************************************)
C24_NihaoJumpsAtOnce ==
    searchBar
    => LET value == <<"n", "i", "h", "a", "o">>
           found == FoundIn(HelloDocument, value)
           after == AfterSubmitDocument(value, HelloDocument)
       IN /\ Len(found) = 1
          /\ found[1].node = 2
          /\ found[1].index = 0
          /\ found[1].length = Len(NiHaoShiJie)
          /\ found[1].pinyinMatch.type = "pinyin"
          /\ found[1].pinyinMatch.pinyin
                 = Join(getPinyin(NiHaoShiJie), <<>>)
          /\ after.inputBuffer = <<>>
          /\ after.hints = <<>>
          /\ ~after.container
          /\ after.jumped = SpanOf(found[1])
          /\ after.selection = JumpRange(2, 0, Len(NiHaoShiJie))
          /\ ~after.active /\ ~after.waitingForInput

\* the query "nihao" was submitted and its one match jumped to
C24_Witness ==
    /\ Idle
    /\ targetKeywords = <<<<"n", "i", "h", "a", "o">>>>
    /\ jumped = [kind |-> "jump", node |-> 2, index |-> 0,
                 length |-> Len(NiHaoShiJie)]
    /\ selection = JumpRange(2, 0, Len(NiHaoShiJie))
    /\ inputBuffer = <<>>
    /\ hints = <<>>

\* the span of the "the" of the first and of the second node of TheDocument
FirstThe == [kind |-> "jump", node |-> 1, index |-> 0, length |-> 3]
SecondThe == [kind |-> "jump", node |-> 2, index |-> 5, length |-> 3]

(***************************************************************************)
(* C25 as stated: on the document of the text nodes "the end" and "over    *)
(* the", Enter on the query "the" makes the session Active with two hints  *)
(* labelled "a" and "s" in document order; the key "s" then jumps to the   *)
(* second occurrence and leaves the session Idle.                          *)
(***************************************************************************)
C25_LabelledAS ==
    searchBar
    => LET shown == AfterSubmitDocument(<<"t", "h", "e">>, TheDocument)
           typed == KeyDownIn(shown, "s")
       IN /\ shown.active
          /\ Spans(shown.hints)
                 = <<[label |-> <<"a">>, span |-> FirstThe],
                     [label |-> <<"s">>, span |-> SecondThe]>>
          /\ typed.jumped = SecondThe
          /\ ~typed.active /\ ~typed.waitingForInput

(***************************************************************************)
(* C25, amended: on the document of the text nodes "the end" and "over     *)
(* the", Enter on the query "the" makes the session Active with two hints  *)
(* labelled "q" and "w" in document order, the first two characters of the *)
(* alphabet; the key "w" then jumps to the second occurrence and leaves    *)
(* the session Idle, and the key "s" changes nothing.                      *)
(***************************************************************************)
C25_LabelledQW ==
    searchBar
    => LET shown == AfterSubmitDocument(<<"t", "h", "e">>, TheDocument)
           typed == KeyDownIn(shown, "w")
           other == KeyDownIn(shown, "s")
       IN /\ shown.active
          /\ Spans(shown.hints)
                 = <<[label |-> <<"q">>, span |-> FirstThe],
                     [label |-> <<"w">>, span |-> SecondThe]>>
          /\ typed.jumped = SecondThe
          /\ typed.selection = JumpRange(2, 5, 3)
          /\ ~typed.active /\ ~typed.waitingForInput
          /\ typed.hints = <<>>
          /\ other = [shown EXCEPT !.jumped = NoJump]

\* "the" was submitted on that document and the key "w" pressed
C25_Witness ==
    /\ Idle
    /\ targetKeywords = <<<<"t", "h", "e">>>>
    /\ jumped = SecondThe
    /\ selection = JumpRange(2, 5, 3)
    /\ hints = <<>>

(***************************************************************************)
(* C26: a keydown event with repeat set changes nothing of the session in  *)
(* any state, whatever its key and whether the focus is in the document or *)
(* in the bar's input: the stored Alt press, the buffer, the hints, the    *)
(* saved range and the selection stay, and no jump is made.                *)
(***************************************************************************)
C26_RepeatChangesNothing ==
    \A key \in Keys \cup {"Alt"}, now \in Times :
        /\ Dispatch(Fresh, KeyEvent(key, TRUE, now), FALSE, <<>>, <<>>) = Fresh
        /\ searchBar
           => \A value \in InputValues, n \in Candidates, layout \in Layouts :
                 Dispatch(Fresh, KeyEvent(key, TRUE, now), TRUE, value,
                          PageMatches(n, layout)) = Fresh

\* a step takes one element out of the document, or fades one toast, and
\* leaves the other elements of the toasts and flashes as they are
OneElementOnly ==
    \/ /\ flashes' = flashes - 1
       /\ toasts' = toasts
    \/ /\ flashes' = flashes
       /\ \E i \in 1..Len(toasts) :
             toasts' = SubSeq(toasts, 1, i - 1)
                          \o SubSeq(toasts, i + 1, Len(toasts))
    \/ /\ flashes' = flashes
       /\ \E i \in 1..Len(toasts) :
             /\ toasts[i].opacity = 1
             /\ toasts' = [toasts EXCEPT ![i].opacity = 0]

(***************************************************************************)
(* C27: a step of a timer callback of flashMatch or of showToast, in       *)
(* whatever state it fires, leaves active, waitingForInput, the buffer,    *)
(* the hints, the saved range and everything else of the session as they   *)
(* are, and takes away or fades one element only, its own.                 *)
(***************************************************************************)
C27_TimersTouchOwnElement ==
    [][(ToastTimer \/ ToastRemove \/ FlashRemove)
       => /\ UNCHANGED <<active, waitingForInput, inputBuffer, hints,
                         savedRange, selection, searchBar, container,
                         scrollBound, listening, styleElement,
                         targetKeywords, lastAltPressTime>>
          /\ OneElementOnly]_vars

\* a toast of an earlier session has faded and the flash of that session is
\* still up while a later session is Active with its hints
C27_Witness ==
    /\ active
    /\ Len(hints) >= 2
    /\ flashes > 0
    /\ toasts # <<>>
    /\ toasts[1].opacity = 0

(***************************************************************************)
(* C28: whenever the session is Active between two handlers, on a host     *)
(* that does not fail, the buffer is a proper prefix of the label of at    *)
(* least one hint: it is empty or the beginning of a longer label, some    *)
(* hint is possible, and the buffer is shorter than the longest label.     *)
(***************************************************************************)
C28_BufferIsProperPrefix ==
    active
    => /\ hints # <<>>
       /\ \E i \in 1..Len(hints) :
             /\ StartsWith(hints[i].label, inputBuffer)
             /\ Len(inputBuffer) < Len(hints[i].label)
       /\ Possible(hints, inputBuffer) # {}

\* thirteen hints, so labels of two characters, and one character typed:
\* the hints whose label does not start with it are dimmed
C28_Witness ==
    /\ active
    /\ Len(hints) = Len(characters) + 1
    /\ inputBuffer = <<"q">>
    /\ \E i \in 1..Len(hints) : hints[i].dimmed

\* the state the keys label[k], label[k + 1], ... make of state s, pressed
\* one after the other with the focus in the document
RECURSIVE TypedFrom(_, _, _)
TypedFrom(s, label, k) ==
    IF k > Len(label) THEN s
    ELSE TypedFrom(KeyDownIn(s, label[k]), label, k + 1)

\* label a is the beginning of the longer label b
ProperPrefix(a, b) == Len(a) < Len(b) /\ StartsWith(b, a)

(***************************************************************************)
(* C29: with 2 to 144 hints on screen and the buffer empty, no label is    *)
(* the beginning of a longer label, and for every hint the keys of its     *)
(* label, typed in order, jump to the span of that hint, which is the span *)
(* of no other hint, and end the session.                                  *)
(***************************************************************************)
C29_EveryHintSelectable ==
    (/\ active
     /\ inputBuffer = <<>>
     /\ Len(hints) >= 2
     /\ Len(hints) <= Len(characters) * Len(characters))
    => /\ \A i, j \in 1..Len(hints) :
             ~ProperPrefix(hints[i].label, hints[j].label)
       /\ \A i \in 1..Len(hints) :
             LET typed == TypedFrom(Fresh, hints[i].label, 1)
             IN /\ typed.jumped = SpanOf(hints[i])
                /\ ~typed.active /\ ~typed.waitingForInput
                /\ typed.hints = <<>>
                /\ \A j \in 1..Len(hints) :
                      j # i => SpanOf(hints[j]) # typed.jumped

\* 144 hints, and the first key of the last label typed
C29_Witness ==
    /\ active
    /\ Len(hints) = Len(characters) * Len(characters)
    /\ inputBuffer = <<"v">>
    /\ \E i \in 1..Len(hints) :
          hints[i].label = <<"v", "v">> /\ ~hints[i].dimmed

\* the selection a jump to the span j sets
TargetOf(j) == JumpRange(j.node, j.index, j.length)

\* handler result s has jumped: the session is ended, the saved range
\* dropped, and the selection is on the target whatever range was saved
JumpedNotRestored(s) ==
    s.jumped # NoJump
    => /\ ~s.active /\ ~s.waitingForInput
       /\ s.savedRange = NoRange
       /\ s.selection = TargetOf(s.jumped)

(***************************************************************************)
(* C30: while a snapshot of the selection is saved, every handler that     *)
(* jumps, for a key of a label or for the single match of a submitted      *)
(* query, ends the session with the snapshot dropped and the selection on  *)
(* the target of the jump, whatever the snapshot was; and in every state   *)
(* reached after a jump the selection is the target and no snapshot kept.  *)
(***************************************************************************)
C30_JumpNotRestored ==
    /\ jumped # NoJump
       => /\ Idle /\ savedRange = NoRange /\ selection = TargetOf(jumped)
    /\ (listening /\ savedRange # NoRange)
       => /\ \A key \in Keys : JumpedNotRestored(AfterKeyDown(key))
          /\ searchBar
             => \A value \in InputValues, n \in Candidates,
                   layout \in Layouts :
                   JumpedNotRestored(AfterSubmit(value, n, layout))

\* the bar is open with the user's caret saved: submitting on a page of one
\* match jumps there at once, and submitting on a page of thirteen and
\* typing the label "qw" jumps to the hint so labelled; neither ends on
\* the caret
C30_Witness ==
    /\ waitingForInput /\ searchBar /\ listening
    /\ savedRange = UserRange
    /\ \E value \in InputValues, layout \in Layouts :
          LET single == AfterSubmit(value, 1, layout)
              shown == AfterSubmit(value, Len(characters) + 1, layout)
              typed == TypedFrom(shown, <<"q", "w">>, 1)
          IN /\ single.jumped # NoJump
             /\ single.selection = TargetOf(single.jumped)
             /\ single.selection # UserRange
             /\ single.savedRange = NoRange /\ ~single.active
             /\ shown.active /\ shown.savedRange = UserRange
             /\ \E i \in 1..Len(shown.hints) :
                   /\ shown.hints[i].label = <<"q", "w">>
                   /\ typed.jumped = SpanOf(shown.hints[i])
             /\ typed.selection = TargetOf(typed.jumped)
             /\ typed.selection # UserRange
             /\ typed.savedRange = NoRange /\ ~typed.active

\* the state a pointer-down leaves, inside the bar or outside it
AfterMouseDown(inBar) == handleMouseDown(Fresh, inBar)

\* s differs from the present state in no field of the session or the page
SameSession(s) == s = Fresh

(***************************************************************************)
(* C31: a pointer-down outside the bar in AwaitingQuery, and any           *)
(* pointer-down in Active, leaves the session Idle with the bar and the    *)
(* hints removed, the saved range dropped and the selection as it was,     *)
(* not the saved range; a pointer-down inside the bar, and any             *)
(* pointer-down in Idle, leaves every field as it was.                     *)
(***************************************************************************)
C31_PointerDownDismisses ==
    listening
    => \A inBar \in BOOLEAN :
          (inBar => searchBar)
          => LET after == AfterMouseDown(inBar)
             IN /\ ((AwaitingQuery /\ ~inBar) \/ Active)
                   => /\ ~after.active /\ ~after.waitingForInput
                      /\ ~after.searchBar /\ ~after.container
                      /\ after.hints = <<>>
                      /\ after.savedRange = NoRange
                      /\ after.selection = selection
                /\ ((AwaitingQuery /\ ~Active /\ inBar) \/ Idle)
                   => SameSession(after)

\* the bar is open with the user's caret saved and the focus in the bar: a
\* pointer-down outside ends the session with the selection not put back,
\* one inside changes nothing; so does a pointer-down on a page of thirteen
\* hints
C31_Witness ==
    /\ waitingForInput /\ searchBar /\ listening /\ ~active
    /\ savedRange = UserRange
    /\ selection = BarFocus
    /\ AfterMouseDown(TRUE) = Fresh
    /\ LET after == AfterMouseDown(FALSE)
       IN /\ ~after.waitingForInput /\ ~after.searchBar
          /\ after.savedRange = NoRange
          /\ after.selection = BarFocus
    /\ \E value \in InputValues, layout \in Layouts :
          LET shown == AfterSubmit(value, Len(characters) + 1, layout)
              after == handleMouseDown(shown, FALSE)
          IN /\ shown.active /\ shown.savedRange = UserRange
             /\ Len(shown.hints) = Len(characters) + 1
             /\ ~after.active /\ after.hints = <<>>
             /\ after.savedRange = NoRange
             /\ after.selection = shown.selection
             /\ after.selection # UserRange

\* the spans of a list of hints or matches, as a set
SpanSet(ms) == {SpanOf(ms[i]) : i \in 1..Len(ms)}

\* the hint list hs holds one hint for each of the candidates, and no other
OnePerCandidate(hs, candidates) ==
    /\ Len(hs) = Len(candidates)
    /\ SpanSet(hs) = SpanSet(candidates)
    /\ \A i, j \in 1..Len(hs) : SpanOf(hs[i]) = SpanOf(hs[j]) => i = j

(***************************************************************************)
(* C32: between handlers the hint list is non-empty only in Active, where  *)
(* it holds two hints at least; in Idle and AwaitingQuery it is empty.     *)
(* The list a submitted query leaves holds one hint for each candidate     *)
(* that removeDuplicateMatches kept, when these are two or more, and is    *)
(* empty otherwise.                                                        *)
(***************************************************************************)
C32_HintsIffActive ==
    /\ hints # <<>> => Active
    /\ Active => Len(hints) >= 2 /\ ~AwaitingQuery
    /\ (Idle \/ AwaitingQuery) => hints = <<>>
    /\ (listening /\ searchBar)
       => \A value \in InputValues, n \in Candidates, layout \in Layouts :
             LET after == AfterSubmit(value, n, layout)
                 candidates == removeDuplicateMatches(PageMatches(n, layout))
             IN IF after.active
                THEN /\ Len(candidates) >= 2
                     /\ OnePerCandidate(after.hints, candidates)
                ELSE after.hints = <<>>

\* hints are on screen for a page on which removeDuplicateMatches has
\* dropped a match: one hint for each match it kept
C32_Witness ==
    /\ Active /\ container
    /\ inputBuffer = <<>>
    /\ \E n \in Candidates, layout \in Layouts :
          LET candidates == removeDuplicateMatches(PageMatches(n, layout))
          IN /\ Len(candidates) < n
             /\ Len(candidates) >= 2
             /\ OnePerCandidate(hints, candidates)

\* the query begins or ends with whitespace
EdgeWhitespace(query) == IsSpace(query[1]) \/ IsSpace(query[Len(query)])

(***************************************************************************)
(* C33: every call of matchPinyin on a non-empty text and a non-empty      *)
(* query, a query that begins or ends with whitespace among them, comes    *)
(* to its return: each iteration of the loop of findMatchIndices ends the  *)
(* loop (-1) or moves the search index forward.  The loop has no other     *)
(* state than the index, so an iteration that leaves the index where it    *)
(* was is repeated for ever, and one that moves it forward can be repeated *)
(* text.length times at most.                                              *)
(***************************************************************************)
C33_EveryIterationAdvances ==
    [][(call.fn = "matchPinyin" /\ call.at = "while" /\ call'.at = "while")
       => (call'.index = -1 \/ call'.index > call.index)]_vars

=============================================================================
